---- MODULE Spec2Model ----
(***************************************************************************)
(* Ingestion and aggregation pipeline of weather-platform.                 *)
(*                                                                         *)
(* Text is modelled as a sequence of one-character strings, a real number  *)
(* as an exact fraction [num, den] in lowest terms, a calendar date as     *)
(* [year, month, day], and an optional value as either that value or NULL. *)
(***************************************************************************)
EXTENDS Integers, Sequences, FiniteSets, TLC

VARIABLES
    dir,           \* the data directory: its *.txt files in enumeration order, each [path, lines]
    stations,      \* table weather_stations
    observations,  \* table weather_observations
    obsSeq,        \* the BIGSERIAL sequence of weather_observations.id
    now,           \* the clock read by time.Now()
    run,           \* number of IngestDirectory calls made so far
    pc,            \* position of the ingester process; "failed": IngestDirectory returned (nil, err),
                   \* "statsfailed": CalculateAllStatistics returned an error
    batchSize,     \* IngestDirectory's batchSize argument
    fileIdx,       \* index in dir of the file of the current loop iteration
    result,        \* IngestDirectory's *IngestionResult
    fres,          \* ingestFile's *FileIngestionResult
    batch,         \* ingestFile's batch buffer
    linePos,       \* number of lines the scanner has delivered from the current file
    scanErr,       \* scanner.Err() # nil
    err,           \* the error of the last failed call, "" when none
    printed,       \* what main has printed of result.Errors
    trace,         \* history: the repository and file operations of the current run
    snap,          \* history: the tables and the recomputation the previous process left
    conv,          \* the parser/normalizer exercised on one line
    statistics,    \* table weather_statistics
    statSeq,       \* the BIGSERIAL sequence of weather_statistics.id
    listed,        \* CalculateAllStatistics' stations, as ListStations returned them
    stationIdx,    \* index in listed of the station of the current loop iteration
    year,          \* the year of the current loop iteration
    stats,         \* the *WeatherStatistics of the last CalculateYearlyStatistics call
    statLog        \* history: errors logged, pairs failed and rows saved by the current recomputation

\* ------------------------------------------------------------------------
\* Text helpers
\* ------------------------------------------------------------------------
TAB == "\t"
SPACE == " "
\* the absent value of an optional real: a nil *float64, a SQL NULL
NULL == [num |-> 0, den |-> 0]
Sentinel == 0 - 9999

Digits == <<"0", "1", "2", "3", "4", "5", "6", "7", "8", "9">>

IsDigit(c) == \E i \in 1..10 : Digits[i] = c

DigitVal(c) == (CHOOSE i \in 1..10 : Digits[i] = c) - 1

RECURSIVE NatText(_)
NatText(n) == IF n < 10 THEN <<Digits[n + 1]>>
              ELSE NatText(n \div 10) \o <<Digits[(n % 10) + 1]>>

\* decimal text of an integer, as a data file writes it
IntText(n) == IF n < 0 THEN <<"-">> \o NatText(0 - n) ELSE NatText(n)

RECURSIVE ZeroPad(_, _)
ZeroPad(s, w) == IF Len(s) >= w THEN s ELSE ZeroPad(<<"0">> \o s, w)

\* YYYYMMDD text of a day
DateText(y, m, d) == ZeroPad(NatText(y), 4) \o ZeroPad(NatText(m), 2) \o ZeroPad(NatText(d), 2)

\* YYYY-MM-DD text of a day (the wrong shape for the data files)
DashedDateText(y, m, d) ==
    ZeroPad(NatText(y), 4) \o <<"-">> \o ZeroPad(NatText(m), 2) \o <<"-">> \o ZeroPad(NatText(d), 2)

RECURSIVE JoinTab(_)
JoinTab(fields) == IF Len(fields) = 0 THEN <<>>
                   ELSE IF Len(fields) = 1 THEN fields[1]
                   ELSE fields[1] \o <<TAB>> \o JoinTab(Tail(fields))

\* strings.Split(line, "\t")
RECURSIVE SplitTab(_, _, _)
SplitTab(s, i, cur) ==
    IF i > Len(s) THEN <<cur>>
    ELSE IF s[i] = TAB THEN <<cur>> \o SplitTab(s, i + 1, <<>>)
    ELSE SplitTab(s, i + 1, Append(cur, s[i]))

IsSpace(c) == c = SPACE \/ c = TAB

\* strings.TrimSpace
RECURSIVE TrimSpace(_)
TrimSpace(s) ==
    IF Len(s) = 0 THEN s
    ELSE IF IsSpace(s[1]) THEN TrimSpace(Tail(s))
    ELSE IF IsSpace(s[Len(s)]) THEN TrimSpace(SubSeq(s, 1, Len(s) - 1))
    ELSE s

AllDigits(s) == \A i \in 1..Len(s) : IsDigit(s[i])

RECURSIVE DigitsVal(_)
DigitsVal(s) == IF Len(s) = 0 THEN 0
                ELSE 10 * DigitsVal(SubSeq(s, 1, Len(s) - 1)) + DigitVal(s[Len(s)])

\* strconv.Atoi: optional sign, then one or more decimal digits
AtoiOK(s) ==
    LET body == IF Len(s) > 0 /\ (s[1] = "-" \/ s[1] = "+") THEN Tail(s) ELSE s
    IN  Len(body) > 0 /\ AllDigits(body)

Atoi(s) ==
    IF Len(s) > 0 /\ s[1] = "-" THEN 0 - DigitsVal(Tail(s))
    ELSE IF Len(s) > 0 /\ s[1] = "+" THEN DigitsVal(Tail(s))
    ELSE DigitsVal(s)

\* ------------------------------------------------------------------------
\* Numbers and dates
\* ------------------------------------------------------------------------
Abs(n) == IF n < 0 THEN 0 - n ELSE n

RECURSIVE GCD(_, _)
GCD(a, b) == IF b = 0 THEN a ELSE GCD(b, a % b)

\* the real number n / d, d > 0
Frac(n, d) == LET g == GCD(Abs(n), d) IN [num |-> n \div g, den |-> d \div g]

FracLE(a, b) == a.num * b.den <= b.num * a.den

IsLeap(y) == (y % 4 = 0 /\ y % 100 # 0) \/ y % 400 = 0

DaysIn(m, y) == IF m = 2 THEN (IF IsLeap(y) THEN 29 ELSE 28)
                ELSE IF m \in {4, 6, 9, 11} THEN 30 ELSE 31

ParseDateOKAnyDigits(s) == Len(s) = 8 /\ AllDigits(s)

\* time.Parse("20060102", s)
ParseDateOK(s) ==
    /\ Len(s) = 8
    /\ AllDigits(s)
    /\ LET y == DigitsVal(SubSeq(s, 1, 4))
           m == DigitsVal(SubSeq(s, 5, 6))
           d == DigitsVal(SubSeq(s, 7, 8))
       IN  m \in 1..12 /\ d >= 1 /\ d <= DaysIn(m, y)

ParseDate(s) == [year  |-> DigitsVal(SubSeq(s, 1, 4)),
                 month |-> DigitsVal(SubSeq(s, 5, 6)),
                 day   |-> DigitsVal(SubSeq(s, 7, 8))]

\* ------------------------------------------------------------------------
\* Raw Record Parser and Value Normalizer
\* ------------------------------------------------------------------------
parseLineOKFirstFour(line) ==
    LET parts == SplitTab(line, 1, <<>>)
    IN  /\ Len(parts) >= 4
        /\ AtoiOK(TrimSpace(parts[2]))
        /\ AtoiOK(TrimSpace(parts[3]))
        /\ AtoiOK(TrimSpace(parts[4]))

parseLineOK(line) ==
    LET parts == SplitTab(line, 1, <<>>)
    IN  /\ Len(parts) = 4
        /\ AtoiOK(TrimSpace(parts[2]))
        /\ AtoiOK(TrimSpace(parts[3]))
        /\ AtoiOK(TrimSpace(parts[4]))

parseLine(line) ==
    LET parts == SplitTab(line, 1, <<>>)
    IN  [Date                 |-> TrimSpace(parts[1]),
         MaxTemperatureTenths |-> Atoi(TrimSpace(parts[2])),
         MinTemperatureTenths |-> Atoi(TrimSpace(parts[3])),
         PrecipitationTenths  |-> Atoi(TrimSpace(parts[4]))]

ToObservationOK(r) == ParseDateOK(r.Date)

TenthsToCelsiusBelow(v) == IF v > Sentinel THEN Frac(v, 10) ELSE NULL

TenthsToCelsius(v) == IF v # Sentinel THEN Frac(v, 10) ELSE NULL

TenthsToCmAsCelsius(v) == IF v # Sentinel THEN Frac(v, 10) ELSE NULL

TenthsToCm(v) == IF v # Sentinel THEN Frac(v, 100) ELSE NULL

ToObservation(r, stationID, createdAt) ==
    [StationID             |-> stationID,
     ObservationDate       |-> ParseDate(r.Date),
     MaxTemperatureCelsius |-> TenthsToCelsius(r.MaxTemperatureTenths),
     MinTemperatureCelsius |-> TenthsToCelsius(r.MinTemperatureTenths),
     PrecipitationCm       |-> TenthsToCm(r.PrecipitationTenths),
     CreatedAt             |-> createdAt]

\* ------------------------------------------------------------------------
\* Bounds and inputs
\* ------------------------------------------------------------------------
MaxFiles == 2
MaxLines == 2
MaxBatch == 2
MinBatch == 0 - 1
MaxRuns == 2

\* candidate file names, in the sorted order filepath.Glob returns them
FileNames == << <<"N", "E", "1", ".", "t", "x", "t">>,
                <<"T", ".", "t", "x", "t">>,
                <<"U", "S", ".", "a", ".", "t", "x", "t">>,
                <<"W", "Y", "4", ".", "t", "x", "t">> >>

FileName(i) == IF i <= Len(FileNames) THEN FileNames[i]
               ELSE <<"X">> \o ZeroPad(NatText(i), 3) \o <<".", "t", "x", "t">>

LnFull     == JoinTab(<<DateText(2013, 1, 15), IntText(250), IntText(150), IntText(100)>>)
LnMissing  == JoinTab(<<DateText(2013, 1, 15), IntText(Sentinel), IntText(150), IntText(100)>>)
LnOther    == JoinTab(<<DateText(1985, 7, 4), IntText(255), IntText(144), IntText(123)>>)
LnBadDate  == JoinTab(<<DashedDateText(2023, 1, 15), IntText(250), IntText(150), IntText(100)>>)
LnBadShape == JoinTab(<<DateText(2013, 1, 15), IntText(250), IntText(150)>>)

LineSet == {LnFull, LnMissing, LnOther, LnBadDate, LnBadShape}

RECURSIVE SeqsUpTo(_, _)
SeqsUpTo(S, n) == IF n = 0 THEN {<<>>}
                  ELSE LET shorter == SeqsUpTo(S, n - 1)
                       IN  shorter \cup {Append(q, x) : q \in {r \in shorter : Len(r) = n - 1}, x \in S}

\* directories of exactly n files holding at most k lines in all
RECURSIVE DirsOf(_, _)
DirsOf(n, k) ==
    IF n = 0 THEN {<<>>}
    ELSE UNION {{Append(d, [path |-> FileName(n), lines |-> ls]) : d \in DirsOf(n - 1, k - Len(ls))} :
                   ls \in SeqsUpTo(LineSet, k)}

Dirs == UNION {DirsOf(n, MaxLines) : n \in 0..MaxFiles}

BatchSizes == MinBatch..MaxBatch

\* ------------------------------------------------------------------------
\* Persistence: schema constraints and repository operations
\* ------------------------------------------------------------------------
DateNum(d) == d.year * 10000 + d.month * 100 + d.day

\* CURRENT_DATE of the database server
CurrentDate == [year |-> 2024, month |-> 6, day |-> 1]

KeyOf(o) == <<o.StationID, o.ObservationDate>>

\* the CHECK and REFERENCES constraints of weather_observations
ObservationConstraintsOK(stns, o) ==
    /\ \E s \in stns : s.StationID = o.StationID
    /\ DateNum(o.ObservationDate) >= 19000101
    /\ DateNum(o.ObservationDate) <= DateNum(CurrentDate)
    /\ o.MaxTemperatureCelsius # NULL =>
          FracLE(Frac(0 - 100, 1), o.MaxTemperatureCelsius) /\ FracLE(o.MaxTemperatureCelsius, Frac(100, 1))
    /\ o.MinTemperatureCelsius # NULL =>
          FracLE(Frac(0 - 100, 1), o.MinTemperatureCelsius) /\ FracLE(o.MinTemperatureCelsius, Frac(100, 1))
    /\ o.PrecipitationCm # NULL =>
          FracLE(Frac(0, 1), o.PrecipitationCm) /\ FracLE(o.PrecipitationCm, Frac(9999, 1))
    /\ (o.MaxTemperatureCelsius # NULL /\ o.MinTemperatureCelsius # NULL) =>
          FracLE(o.MinTemperatureCelsius, o.MaxTemperatureCelsius)

\* the CHECK constraints of weather_stations
StationConstraintsOK(st) == Len(st.StationID) > 0 /\ Len(st.StationID) <= 50 /\ Len(st.State) = 2

CreateStationOverwrite(stns, st) ==
    {s \in stns : s.StationID # st.StationID} \cup {st}

\* INSERT INTO weather_stations ... ON CONFLICT (station_id) DO NOTHING
CreateStation(stns, st) ==
    IF \E s \in stns : s.StationID = st.StationID THEN stns ELSE stns \cup {st}

UpsertObservationInsertOnly(tbl, id, o) ==
    tbl \cup {[ID                    |-> id,
               StationID             |-> o.StationID,
               ObservationDate       |-> o.ObservationDate,
               MaxTemperatureCelsius |-> o.MaxTemperatureCelsius,
               MinTemperatureCelsius |-> o.MinTemperatureCelsius,
               PrecipitationCm       |-> o.PrecipitationCm,
               CreatedAt             |-> o.CreatedAt]}

UpsertObservationDoNothing(tbl, id, o) ==
    IF \E r \in tbl : KeyOf(r) = KeyOf(o) THEN tbl
    ELSE UpsertObservationInsertOnly(tbl, id, o)

UpsertObservationReplaceRow(tbl, id, o) ==
    {r \in tbl : KeyOf(r) # KeyOf(o)}
       \cup {[ID                    |-> id,
              StationID             |-> o.StationID,
              ObservationDate       |-> o.ObservationDate,
              MaxTemperatureCelsius |-> o.MaxTemperatureCelsius,
              MinTemperatureCelsius |-> o.MinTemperatureCelsius,
              PrecipitationCm       |-> o.PrecipitationCm,
              CreatedAt             |-> o.CreatedAt]}

\* INSERT INTO weather_observations ... ON CONFLICT (station_id, observation_date) DO UPDATE SET
\* the three value columns; id is the next value of the sequence for a new row
UpsertObservation(tbl, id, o) ==
    IF \E r \in tbl : KeyOf(r) = KeyOf(o)
    THEN {IF KeyOf(r) = KeyOf(o)
          THEN [r EXCEPT !.MaxTemperatureCelsius = o.MaxTemperatureCelsius,
                         !.MinTemperatureCelsius = o.MinTemperatureCelsius,
                         !.PrecipitationCm = o.PrecipitationCm]
          ELSE r : r \in tbl}
    ELSE tbl \cup {[ID                    |-> id,
                    StationID             |-> o.StationID,
                    ObservationDate       |-> o.ObservationDate,
                    MaxTemperatureCelsius |-> o.MaxTemperatureCelsius,
                    MinTemperatureCelsius |-> o.MinTemperatureCelsius,
                    PrecipitationCm       |-> o.PrecipitationCm,
                    CreatedAt             |-> o.CreatedAt]}

\* where a batch upsert can fail: not at all, at BeginTx, at PrepareContext,
\* at the ExecContext of row k, or at Commit
FailPoints(n) == {[at |-> a, k |-> 0] : a \in {"none", "begin", "prepare", "commit"}}
                     \cup {[at |-> "exec", k |-> k] : k \in 1..n}

NoFailure == [at |-> "none", k |-> 0]

\* the ExecContext loop inside the transaction, from row k on: the
\* transaction's view of the table, the sequence, and whether every row went in
RECURSIVE ExecRows(_, _, _, _, _, _)
ExecRows(tbl, seq, stns, rows, k, failAt) ==
    IF k > Len(rows) THEN [ok |-> TRUE, table |-> tbl, seq |-> seq]
    ELSE IF failAt.at = "exec" /\ failAt.k = k THEN [ok |-> FALSE, table |-> tbl, seq |-> seq]
    ELSE IF ~ObservationConstraintsOK(stns, rows[k])
         THEN [ok |-> FALSE, table |-> tbl, seq |-> seq + 1]
    ELSE ExecRows(UpsertObservation(tbl, seq + 1, rows[k]), seq + 1, stns, rows, k + 1, failAt)

CreateObservationsBatchNoRollback(tbl, seq, stns, rows, failAt) ==
    IF Len(rows) = 0 THEN [ok |-> TRUE, table |-> tbl, seq |-> seq]
    ELSE IF failAt.at \in {"begin", "prepare"} THEN [ok |-> FALSE, table |-> tbl, seq |-> seq]
    ELSE LET tx == ExecRows(tbl, seq, stns, rows, 1, failAt)
         IN  [ok |-> tx.ok /\ failAt.at # "commit", table |-> tx.table, seq |-> tx.seq]

CreateObservationsBatchCompensate(tbl, seq, stns, rows, failAt) ==
    IF Len(rows) = 0 THEN [ok |-> TRUE, table |-> tbl, seq |-> seq]
    ELSE LET tx == ExecRows(tbl, seq, stns, rows, 1, failAt)
             kept == {r \in tbl : r.StationID # rows[1].StationID}
         IN  IF failAt.at \in {"begin", "prepare"} THEN [ok |-> FALSE, table |-> kept, seq |-> seq]
             ELSE IF ~tx.ok \/ failAt.at = "commit" THEN [ok |-> FALSE, table |-> kept, seq |-> tx.seq]
             ELSE [ok |-> TRUE, table |-> tx.table, seq |-> tx.seq]

\* weatherRepository.CreateObservationsBatch: the table and the sequence after the
\* call, and whether it returned nil. A failed call leaves the table to the
\* deferred tx.Rollback(); sequence values drawn inside the transaction are not
\* given back.
CreateObservationsBatch(tbl, seq, stns, rows, failAt) ==
    IF Len(rows) = 0 THEN [ok |-> TRUE, table |-> tbl, seq |-> seq]
    ELSE IF failAt.at \in {"begin", "prepare"} THEN [ok |-> FALSE, table |-> tbl, seq |-> seq]
    ELSE LET tx == ExecRows(tbl, seq, stns, rows, 1, failAt)
         IN  IF ~tx.ok THEN [ok |-> FALSE, table |-> tbl, seq |-> tx.seq]
             ELSE IF failAt.at = "commit" THEN [ok |-> FALSE, table |-> tbl, seq |-> tx.seq]
             ELSE [ok |-> TRUE, table |-> tx.table, seq |-> tx.seq]

\* ---- weather_statistics ---------------------------------------------------
FracAdd(a, b) == Frac(a.num * b.den + b.num * a.den, a.den * b.den)

\* the real number a / n, n > 0
FracOver(a, n) == Frac(a.num, a.den * n)

\* a real as a DECIMAL column of the given scale (100 for two decimals) stores
\* it: rounded to the nearest multiple of 1 / scale, halves away from zero
RoundTo(x, scale) ==
    IF x = NULL THEN NULL
    ELSE LET n == Abs(x.num) * scale
             q == (2 * n + x.den) \div (2 * x.den)
         IN  Frac(IF x.num < 0 THEN 0 - q ELSE q, scale)

\* WHERE station_id = $1 AND EXTRACT(YEAR FROM observation_date) = $2
RowsOfYear(tbl, stationID, y) ==
    {r \in tbl : r.StationID = stationID /\ r.ObservationDate.year = y}

ValidCountAnyYear(tbl, stationID, y, field) ==
    Cardinality({r \in tbl : r.StationID = stationID /\ r[field] # NULL})

\* COUNT(column): the rows of the station and year whose column is not NULL
ValidCount(tbl, stationID, y, field) ==
    Cardinality({r \in RowsOfYear(tbl, stationID, y) : r[field] # NULL})

\* SUM(column): NULL over no value, else the sum of the values that are not NULL
RECURSIVE SumOf(_, _)
SumOf(rows, field) ==
    LET present == {r \in rows : r[field] # NULL}
    IN  IF present = {} THEN NULL
        ELSE LET r == CHOOSE x \in present : TRUE
                 rest == SumOf(present \ {r}, field)
             IN  IF rest = NULL THEN r[field] ELSE FracAdd(r[field], rest)

AvgOfZeroWhenEmpty(rows, field) ==
    IF SumOf(rows, field) = NULL THEN Frac(0, 1)
    ELSE FracOver(SumOf(rows, field), Cardinality({r \in rows : r[field] # NULL}))

AvgOfNullAsZero(rows, field) ==
    IF SumOf(rows, field) = NULL THEN NULL
    ELSE FracOver(SumOf(rows, field), Cardinality(rows))

\* AVG(column): NULL over no value, else the sum over the number of the values
\* that are not NULL
AvgOf(rows, field) ==
    IF SumOf(rows, field) = NULL THEN NULL
    ELSE FracOver(SumOf(rows, field), Cardinality({r \in rows : r[field] # NULL}))

\* weatherRepository.CalculateYearlyStatistics, when its query succeeds
CalculateYearlyStatistics(tbl, stationID, y, at) ==
    LET rows == RowsOfYear(tbl, stationID, y)
    IN  [StationID                |-> stationID,
         Year                     |-> y,
         AvgMaxTemperatureCelsius |-> AvgOf(rows, "MaxTemperatureCelsius"),
         AvgMinTemperatureCelsius |-> AvgOf(rows, "MinTemperatureCelsius"),
         TotalPrecipitationCm     |-> SumOf(rows, "PrecipitationCm"),
         ObservationCount         |-> Cardinality(rows),
         ValidMaxTempCount        |-> ValidCount(tbl, stationID, y, "MaxTemperatureCelsius"),
         ValidMinTempCount        |-> ValidCount(tbl, stationID, y, "MinTemperatureCelsius"),
         ValidPrecipitationCount  |-> ValidCount(tbl, stationID, y, "PrecipitationCm"),
         CreatedAt                |-> at,
         UpdatedAt                |-> at]

\* the CHECK and REFERENCES constraints of weather_statistics
StatisticsConstraintsOK(stns, st) ==
    /\ \E s \in stns : s.StationID = st.StationID
    /\ st.Year >= 1900
    /\ st.Year <= CurrentDate.year
    /\ st.ObservationCount >= 0
    /\ st.ValidMaxTempCount >= 0 /\ st.ValidMaxTempCount <= st.ObservationCount
    /\ st.ValidMinTempCount >= 0 /\ st.ValidMinTempCount <= st.ObservationCount
    /\ st.ValidPrecipitationCount >= 0 /\ st.ValidPrecipitationCount <= st.ObservationCount

UpsertStatisticsInsertOnly(tbl, id, st) ==
    tbl \cup {[ID                       |-> id,
               StationID                |-> st.StationID,
               Year                     |-> st.Year,
               AvgMaxTemperatureCelsius |-> RoundTo(st.AvgMaxTemperatureCelsius, 100),
               AvgMinTemperatureCelsius |-> RoundTo(st.AvgMinTemperatureCelsius, 100),
               TotalPrecipitationCm     |-> RoundTo(st.TotalPrecipitationCm, 10000),
               ObservationCount         |-> st.ObservationCount,
               ValidMaxTempCount        |-> st.ValidMaxTempCount,
               ValidMinTempCount        |-> st.ValidMinTempCount,
               ValidPrecipitationCount  |-> st.ValidPrecipitationCount,
               CreatedAt                |-> st.CreatedAt,
               UpdatedAt                |-> st.UpdatedAt]}

\* INSERT INTO weather_statistics ... ON CONFLICT (station_id, year) DO UPDATE SET
\* the aggregates, the counts and updated_at; id is the next value of the
\* sequence for a new row, and the DECIMAL columns round what they are given
UpsertStatistics(tbl, id, st) ==
    LET avgMax == RoundTo(st.AvgMaxTemperatureCelsius, 100)
        avgMin == RoundTo(st.AvgMinTemperatureCelsius, 100)
        total  == RoundTo(st.TotalPrecipitationCm, 10000)
    IN  IF \E r \in tbl : r.StationID = st.StationID /\ r.Year = st.Year
        THEN {IF r.StationID = st.StationID /\ r.Year = st.Year
              THEN [r EXCEPT !.AvgMaxTemperatureCelsius = avgMax,
                             !.AvgMinTemperatureCelsius = avgMin,
                             !.TotalPrecipitationCm = total,
                             !.ObservationCount = st.ObservationCount,
                             !.ValidMaxTempCount = st.ValidMaxTempCount,
                             !.ValidMinTempCount = st.ValidMinTempCount,
                             !.ValidPrecipitationCount = st.ValidPrecipitationCount,
                             !.UpdatedAt = st.UpdatedAt]
              ELSE r : r \in tbl}
        ELSE tbl \cup {[ID                       |-> id,
                        StationID                |-> st.StationID,
                        Year                     |-> st.Year,
                        AvgMaxTemperatureCelsius |-> avgMax,
                        AvgMinTemperatureCelsius |-> avgMin,
                        TotalPrecipitationCm     |-> total,
                        ObservationCount         |-> st.ObservationCount,
                        ValidMaxTempCount        |-> st.ValidMaxTempCount,
                        ValidMinTempCount        |-> st.ValidMinTempCount,
                        ValidPrecipitationCount  |-> st.ValidPrecipitationCount,
                        CreatedAt                |-> st.CreatedAt,
                        UpdatedAt                |-> st.UpdatedAt]}

\* ------------------------------------------------------------------------
\* File names
\* ------------------------------------------------------------------------
RECURSIVE LastDot(_, _)
LastDot(s, i) == IF i = 0 THEN 0 ELSE IF s[i] = "." THEN i ELSE LastDot(s, i - 1)

\* strings.TrimSuffix(fileName, filepath.Ext(fileName))
StationIDOf(path) ==
    LET e == LastDot(path, Len(path)) IN IF e = 0 THEN path ELSE SubSeq(path, 1, e - 1)

extractStateFromStationID(stationID) ==
    IF Len(stationID) >= 2 THEN SubSeq(stationID, 1, 2) ELSE <<"X", "X">>

\* ------------------------------------------------------------------------
\* The ingester process
\* ------------------------------------------------------------------------
statVars == <<statistics, statSeq, listed, stationIdx, year, stats, statLog>>

vars == <<dir, stations, observations, obsSeq, now, run, pc, batchSize, fileIdx, result,
          fres, batch, linePos, scanErr, err, printed, trace, snap, conv, statVars>>

\* number of error strings main prints before it summarises the rest
ErrorCap == 10

\* the IngestionResult allocated at the start of IngestDirectory
EmptyResult == [TotalFiles |-> 0, TotalRecords |-> 0, SuccessfulRecords |-> 0,
                FailedRecords |-> 0, Errors |-> <<>>]

ZeroFileResult == [TotalRecords |-> 0, SuccessfulRecords |-> 0, FailedRecords |-> 0]

NothingPrinted == [shown |-> <<>>, more |-> 0]

NoSnap == [valid |-> FALSE, batchSize |-> 0, observations |-> {}, stations |-> {},
           statistics |-> {}, recomputed |-> FALSE, statErrors |-> 0]

NoRaw == [Date |-> <<>>, MaxTemperatureTenths |-> 0, MinTemperatureTenths |-> 0,
          PrecipitationTenths |-> 0]

NoObs == [StationID |-> <<>>, ObservationDate |-> [year |-> 0, month |-> 0, day |-> 0],
          MaxTemperatureCelsius |-> NULL, MinTemperatureCelsius |-> NULL,
          PrecipitationCm |-> NULL, CreatedAt |-> 0]

\* no *WeatherStatistics in hand
NoStats == [StationID |-> <<>>, Year |-> 0,
            AvgMaxTemperatureCelsius |-> NULL, AvgMinTemperatureCelsius |-> NULL,
            TotalPrecipitationCm |-> NULL, ObservationCount |-> 0,
            ValidMaxTempCount |-> 0, ValidMinTempCount |-> 0, ValidPrecipitationCount |-> 0,
            CreatedAt |-> 0, UpdatedAt |-> 0]

EmptyStatLog == [errors |-> 0, failed |-> {}, totalStats |-> 0]

ConvIdle == [stage |-> "idle", line |-> <<>>, raw |-> NoRaw, obs |-> NoObs]

CurFile == dir[fileIdx]

CurStation == StationIDOf(CurFile.path)

\* the state before main runs: a data directory and the tables as earlier
\* processes left them, weather_stations being one of the given catalogs
InitFrom(dirs, convs, catalogs) ==
    /\ dir \in dirs
    /\ stations \in catalogs
    /\ observations = {}
    /\ obsSeq = 0
    /\ now = 0
    /\ run = 0
    /\ pc = "idle"
    /\ batchSize = 0
    /\ fileIdx = 0
    /\ result = EmptyResult
    /\ fres = ZeroFileResult
    /\ batch = <<>>
    /\ linePos = 0
    /\ scanErr = FALSE
    /\ err = ""
    /\ printed = NothingPrinted
    /\ trace = <<>>
    /\ snap = NoSnap
    /\ conv \in convs
    /\ statistics = {}
    /\ statSeq = 0
    /\ listed = <<>>
    /\ stationIdx = 0
    /\ year = 0
    /\ stats = NoStats
    /\ statLog = EmptyStatLog

InitWith(dirs, convs) == InitFrom(dirs, convs, {{}})

Init == InitWith(Dirs, {ConvIdle})

IngestDirectoryUnchecked(bs, maxRuns) ==
    /\ pc \in {"idle", "reported", "failed", "panic", "statsdone", "statsfailed"}
    /\ run < maxRuns
    /\ run' = run + 1
    /\ now' = now + 1
    /\ batchSize' = bs
    /\ trace' = <<>>
    /\ printed' = NothingPrinted
    /\ snap' = [valid        |-> pc = "reported" /\ Len(result.Errors) = 0,
                batchSize    |-> IF pc = "reported" /\ Len(result.Errors) = 0 THEN batchSize ELSE 0,
                observations |-> observations,
                stations     |-> stations,
                statistics   |-> statistics,
                recomputed   |-> pc = "statsdone",
                statErrors   |-> statLog.errors]
    /\ result' = [EmptyResult EXCEPT !.TotalFiles = Len(dir)]
    /\ err' = ""
    /\ fileIdx' = 1
    /\ pc' = "file"
    /\ fres' = ZeroFileResult
    /\ batch' = <<>>
    /\ linePos' = 0
    /\ scanErr' = FALSE
    /\ UNCHANGED <<dir, stations, observations, obsSeq, conv, statVars>>

\* IngestionService.IngestDirectory up to its loop over the files, called by a
\* fresh ingester process; the directory is ingested at most maxRuns times
IngestDirectory(bs, maxRuns) ==
    /\ pc \in {"idle", "reported", "failed", "panic", "statsdone", "statsfailed"}
    /\ run < maxRuns
    /\ run' = run + 1
    /\ now' = now + 1
    /\ batchSize' = bs
    /\ trace' = <<>>
    /\ printed' = NothingPrinted
    /\ snap' = [valid        |-> pc = "reported" /\ Len(result.Errors) = 0,
                batchSize    |-> IF pc = "reported" /\ Len(result.Errors) = 0 THEN batchSize ELSE 0,
                observations |-> observations,
                stations     |-> stations,
                statistics   |-> statistics,
                recomputed   |-> pc = "statsdone",
                statErrors   |-> statLog.errors]
    /\ IF Len(dir) = 0
       THEN /\ result' = EmptyResult
            /\ err' = "no data files found"
            /\ fileIdx' = 0
            /\ pc' = "failed"
       ELSE /\ result' = [EmptyResult EXCEPT !.TotalFiles = Len(dir)]
            /\ err' = ""
            /\ fileIdx' = 1
            /\ pc' = "file"
    /\ fres' = ZeroFileResult
    /\ batch' = <<>>
    /\ linePos' = 0
    /\ scanErr' = FALSE
    /\ UNCHANGED <<dir, stations, observations, obsSeq, conv, statVars>>

FileFailsAbort(msg) ==
    /\ result' = [result EXCEPT !.Errors = Append(@, [path |-> CurFile.path, msg |-> msg])]
    /\ err' = msg
    /\ fileIdx' = fileIdx
    /\ pc' = "failed"
    /\ fres' = ZeroFileResult
    /\ batch' = <<>>
    /\ linePos' = 0
    /\ scanErr' = FALSE

\* ingestFile returns an error: IngestDirectory records it and goes on
FileFails(msg) ==
    /\ result' = [result EXCEPT !.Errors = Append(@, [path |-> CurFile.path, msg |-> msg])]
    /\ err' = msg
    /\ fileIdx' = fileIdx + 1
    /\ pc' = "file"
    /\ fres' = ZeroFileResult
    /\ batch' = <<>>
    /\ linePos' = 0
    /\ scanErr' = FALSE

\* ingestFile returns its result: IngestDirectory adds it to the run's
FileSucceeds(fr) ==
    /\ result' = [result EXCEPT !.TotalRecords = @ + fr.TotalRecords,
                                !.SuccessfulRecords = @ + fr.SuccessfulRecords,
                                !.FailedRecords = @ + fr.FailedRecords]
    /\ err' = ""
    /\ fileIdx' = fileIdx + 1
    /\ pc' = "file"
    /\ fres' = ZeroFileResult
    /\ batch' = <<>>
    /\ linePos' = 0
    /\ scanErr' = FALSE

BeginFileIgnoreStationError(outcome) ==
    /\ pc = "file"
    /\ fileIdx <= Len(dir)
    /\ LET station == [StationID |-> CurStation,
                       State     |-> extractStateFromStationID(CurStation),
                       CreatedAt |-> now,
                       UpdatedAt |-> now]
           created == outcome # "station" /\ StationConstraintsOK(station)
       IN  /\ stations' = IF created THEN CreateStation(stations, station) ELSE stations
           /\ trace' = trace \o <<[ev |-> "file", f |-> fileIdx],
                                  [ev |-> "station", f |-> fileIdx, ok |-> created],
                                  [ev |-> "open", f |-> fileIdx, ok |-> outcome # "open"]>>
           /\ IF outcome = "open"
              THEN FileFails("failed to open file")
              ELSE /\ pc' = IF batchSize < 0 THEN "panic" ELSE "scan"
                   /\ err' = ""
                   /\ fres' = ZeroFileResult
                   /\ batch' = <<>>
                   /\ linePos' = 0
                   /\ scanErr' = FALSE
                   /\ UNCHANGED <<result, fileIdx>>
    /\ UNCHANGED <<dir, observations, obsSeq, now, run, batchSize, printed, snap, conv, statVars>>

\* ingestFile from its entry to the scanner loop: station, open, make(batch)
BeginFile(outcome) ==
    /\ pc = "file"
    /\ fileIdx <= Len(dir)
    /\ LET station == [StationID |-> CurStation,
                       State     |-> extractStateFromStationID(CurStation),
                       CreatedAt |-> now,
                       UpdatedAt |-> now]
       IN  IF outcome = "station" \/ ~StationConstraintsOK(station)
           THEN /\ FileFails("failed to create station")
                /\ trace' = trace \o <<[ev |-> "file", f |-> fileIdx],
                                       [ev |-> "station", f |-> fileIdx, ok |-> FALSE]>>
                /\ UNCHANGED stations
           ELSE /\ stations' = CreateStation(stations, station)
                /\ trace' = trace \o <<[ev |-> "file", f |-> fileIdx],
                                       [ev |-> "station", f |-> fileIdx, ok |-> TRUE],
                                       [ev |-> "open", f |-> fileIdx, ok |-> outcome # "open"]>>
                /\ IF outcome = "open"
                   THEN FileFails("failed to open file")
                   ELSE /\ pc' = IF batchSize < 0 THEN "panic" ELSE "scan"
                        /\ err' = ""
                        /\ fres' = ZeroFileResult
                        /\ batch' = <<>>
                        /\ linePos' = 0
                        /\ scanErr' = FALSE
                        /\ UNCHANGED <<result, fileIdx>>
    /\ UNCHANGED <<dir, observations, obsSeq, now, run, batchSize, printed, snap, conv, statVars>>

NextAfterLineLate(good, b, size) == IF good /\ Len(b) > size THEN "flush" ELSE "scan"

NextAfterLineAbort(good, b, size) ==
    IF ~good THEN "final" ELSE IF Len(b) >= size THEN "flush" ELSE "scan"

\* where the loop body goes after a line: `continue` on a bad record, the flush
\* when the batch is full, else the next Scan
NextAfterLine(good, b, size) == IF good /\ Len(b) >= size THEN "flush" ELSE "scan"

\* one iteration of the scanner loop, up to the test of the batch length
ScanLine ==
    /\ pc = "scan"
    /\ linePos < Len(CurFile.lines)
    /\ LET line == CurFile.lines[linePos + 1]
           good == parseLineOK(line) /\ ToObservationOK(parseLine(line))
           newBatch == IF good THEN Append(batch, ToObservation(parseLine(line), CurStation, now))
                       ELSE batch
       IN  /\ linePos' = linePos + 1
           /\ fres' = [fres EXCEPT !.TotalRecords = @ + 1,
                                   !.FailedRecords = IF good THEN @ ELSE @ + 1]
           /\ batch' = newBatch
           /\ pc' = NextAfterLine(good, newBatch, batchSize)
           /\ trace' = Append(trace, [ev |-> "line", f |-> fileIdx, n |-> linePos + 1, good |-> good])
    /\ UNCHANGED <<dir, stations, observations, obsSeq, now, run, batchSize, fileIdx, result,
                   scanErr, err, printed, snap, conv, statVars>>

\* scanner.Scan() returns false: end of file, or a read error
ScanStop(readError) ==
    /\ pc = "scan"
    /\ readError \/ linePos = Len(CurFile.lines)
    /\ scanErr' = readError
    /\ pc' = "final"
    /\ trace' = IF readError THEN Append(trace, [ev |-> "readerr", f |-> fileIdx]) ELSE trace
    /\ UNCHANGED <<dir, stations, observations, obsSeq, now, run, batchSize, fileIdx, result,
                   fres, batch, linePos, err, printed, snap, conv, statVars>>

FlushBatchIgnoreError(failAt) ==
    /\ pc = "flush"
    /\ LET r == CreateObservationsBatch(observations, obsSeq, stations, batch, failAt)
       IN  /\ observations' = r.table
           /\ obsSeq' = r.seq
           /\ trace' = Append(trace, [ev |-> "upsert", f |-> fileIdx, rows |-> batch,
                                      ok |-> r.ok, inLoop |-> TRUE])
           /\ fres' = [fres EXCEPT !.SuccessfulRecords = @ + Len(batch)]
           /\ batch' = <<>>
           /\ pc' = "scan"
           /\ err' = ""
           /\ UNCHANGED <<result, fileIdx, linePos, scanErr>>
    /\ UNCHANGED <<dir, stations, now, run, batchSize, printed, snap, conv, statVars>>

\* the flush of a full batch inside the loop
FlushBatch(failAt) ==
    /\ pc = "flush"
    /\ LET r == CreateObservationsBatch(observations, obsSeq, stations, batch, failAt)
       IN  /\ observations' = r.table
           /\ obsSeq' = r.seq
           /\ trace' = Append(trace, [ev |-> "upsert", f |-> fileIdx, rows |-> batch,
                                      ok |-> r.ok, inLoop |-> TRUE])
           /\ IF r.ok
              THEN /\ fres' = [fres EXCEPT !.SuccessfulRecords = @ + Len(batch)]
                   /\ batch' = <<>>
                   /\ pc' = "scan"
                   /\ err' = ""
                   /\ UNCHANGED <<result, fileIdx, linePos, scanErr>>
              ELSE FileFails("failed to insert batch")
    /\ UNCHANGED <<dir, stations, now, run, batchSize, printed, snap, conv, statVars>>

FinishFileErrFirst(failAt) ==
    /\ pc = "final"
    /\ IF scanErr
       THEN /\ failAt = NoFailure
            /\ UNCHANGED <<observations, obsSeq, trace>>
            /\ FileFails("error reading file")
       ELSE IF Len(batch) > 0
       THEN LET r == CreateObservationsBatch(observations, obsSeq, stations, batch, failAt)
            IN  /\ observations' = r.table
                /\ obsSeq' = r.seq
                /\ trace' = Append(trace, [ev |-> "upsert", f |-> fileIdx, rows |-> batch,
                                           ok |-> r.ok, inLoop |-> FALSE])
                /\ IF ~r.ok THEN FileFails("failed to insert final batch")
                   ELSE FileSucceeds([fres EXCEPT !.SuccessfulRecords = @ + Len(batch)])
       ELSE /\ failAt = NoFailure
            /\ UNCHANGED <<observations, obsSeq, trace>>
            /\ FileSucceeds(fres)
    /\ UNCHANGED <<dir, stations, now, run, batchSize, printed, snap, conv, statVars>>

FinishFileUncounted(failAt) ==
    /\ pc = "final"
    /\ IF Len(batch) > 0
       THEN LET r == CreateObservationsBatch(observations, obsSeq, stations, batch, failAt)
            IN  /\ observations' = r.table
                /\ obsSeq' = r.seq
                /\ trace' = Append(trace, [ev |-> "upsert", f |-> fileIdx, rows |-> batch,
                                           ok |-> r.ok, inLoop |-> FALSE])
                /\ IF ~r.ok THEN FileFails("failed to insert final batch")
                   ELSE IF scanErr THEN FileFails("error reading file")
                   ELSE FileSucceeds(fres)
       ELSE /\ failAt = NoFailure
            /\ UNCHANGED <<observations, obsSeq, trace>>
            /\ IF scanErr THEN FileFails("error reading file") ELSE FileSucceeds(fres)
    /\ UNCHANGED <<dir, stations, now, run, batchSize, printed, snap, conv, statVars>>

FinishFileNoFlush(failAt) ==
    /\ pc = "final"
    /\ failAt = NoFailure
    /\ UNCHANGED <<observations, obsSeq, trace>>
    /\ IF scanErr THEN FileFails("error reading file") ELSE FileSucceeds(fres)
    /\ UNCHANGED <<dir, stations, now, run, batchSize, printed, snap, conv, statVars>>

\* ingestFile after the loop: flush of the remaining records, scanner.Err(), return
FinishFile(failAt) ==
    /\ pc = "final"
    /\ IF Len(batch) > 0
       THEN LET r == CreateObservationsBatch(observations, obsSeq, stations, batch, failAt)
            IN  /\ observations' = r.table
                /\ obsSeq' = r.seq
                /\ trace' = Append(trace, [ev |-> "upsert", f |-> fileIdx, rows |-> batch,
                                           ok |-> r.ok, inLoop |-> FALSE])
                /\ IF ~r.ok THEN FileFails("failed to insert final batch")
                   ELSE IF scanErr THEN FileFails("error reading file")
                   ELSE FileSucceeds([fres EXCEPT !.SuccessfulRecords = @ + Len(batch)])
       ELSE /\ failAt = NoFailure
            /\ UNCHANGED <<observations, obsSeq, trace>>
            /\ IF scanErr THEN FileFails("error reading file") ELSE FileSucceeds(fres)
    /\ UNCHANGED <<dir, stations, now, run, batchSize, printed, snap, conv, statVars>>

\* IngestDirectory after its loop
Return ==
    /\ pc = "file"
    /\ fileIdx > Len(dir)
    /\ pc' = "returned"
    /\ UNCHANGED <<dir, stations, observations, obsSeq, now, run, batchSize, fileIdx, result,
                   fres, batch, linePos, scanErr, err, printed, trace, snap, conv, statVars>>

Min(a, b) == IF a < b THEN a ELSE b

MainReportAll ==
    /\ pc = "returned"
    /\ printed' = [shown |-> result.Errors, more |-> 0]
    /\ pc' = "reported"
    /\ UNCHANGED <<dir, stations, observations, obsSeq, now, run, batchSize, fileIdx, result,
                   fres, batch, linePos, scanErr, err, trace, snap, conv, statVars>>

\* main prints the result: the first ErrorCap errors, then the number of the others
MainReport ==
    /\ pc = "returned"
    /\ printed' = [shown |-> SubSeq(result.Errors, 1, Min(ErrorCap, Len(result.Errors))),
                   more  |-> IF Len(result.Errors) > ErrorCap
                             THEN Len(result.Errors) - ErrorCap ELSE 0]
    /\ pc' = "reported"
    /\ UNCHANGED <<dir, stations, observations, obsSeq, now, run, batchSize, fileIdx, result,
                   fres, batch, linePos, scanErr, err, trace, snap, conv, statVars>>

Next ==
    \/ \E bs \in BatchSizes : IngestDirectory(bs, MaxRuns)
    \/ \E outcome \in {"ok", "station", "open"} : BeginFile(outcome)
    \/ ScanLine
    \/ \E readError \in BOOLEAN : ScanStop(readError)
    \/ \E failAt \in FailPoints(Len(batch)) : FlushBatch(failAt)
    \/ \E failAt \in FailPoints(Len(batch)) : FinishFile(failAt)
    \/ Return
    \/ MainReport

Spec == Init /\ [][Next]_vars

\* ------------------------------------------------------------------------
\* One ingestion of a directory of many files, of which any may fail
\* ------------------------------------------------------------------------
ManyFiles == ErrorCap + 2

ManyDir(n) == [i \in 1..n |-> [path |-> FileName(i), lines |-> IF i = 1 THEN <<LnFull>> ELSE <<>>]]

InitMany == InitWith({ManyDir(n) : n \in 1..ManyFiles}, {ConvIdle})

NextMany ==
    \/ IngestDirectory(1, 1)
    \/ \E outcome \in {"ok", "station"} : BeginFile(outcome)
    \/ ScanLine
    \/ ScanStop(FALSE)
    \/ FlushBatch(NoFailure)
    \/ FinishFile(NoFailure)
    \/ Return
    \/ MainReport

SpecMany == InitMany /\ [][NextMany]_vars

\* ------------------------------------------------------------------------
\* Statistics Aggregation Engine: main's CalculateAllStatistics after a run
\* ------------------------------------------------------------------------
\* characters of station identifiers, in the order ORDER BY compares them
CharOrder == <<".", "0", "1", "2", "3", "4", "5", "6", "7", "8", "9",
               "A", "B", "C", "D", "E", "F", "G", "H", "I", "J", "K", "L", "M",
               "N", "O", "P", "Q", "R", "S", "T", "U", "V", "W", "X", "Y", "Z",
               "a", "b", "c", "d", "e", "f", "g", "h", "i", "j", "k", "l", "m",
               "n", "o", "p", "q", "r", "s", "t", "u", "v", "w", "x", "y", "z">>

CharRank(c) == CHOOSE i \in 1..Len(CharOrder) : CharOrder[i] = c

RECURSIVE TextLE(_, _)
TextLE(a, b) ==
    IF Len(a) = 0 THEN TRUE
    ELSE IF Len(b) = 0 THEN FALSE
    ELSE IF a[1] = b[1] THEN TextLE(Tail(a), Tail(b))
    ELSE CharRank(a[1]) < CharRank(b[1])

\* ORDER BY station_id: the rows whose station_id ends before position p come
\* first, then the others by their character at p, each group ordered likewise
\* from p + 1; station_id is the primary key, so at most one row ends before p
RECURSIVE OrderFrom(_, _), OrderBuckets(_, _, _)
OrderFrom(stns, p) ==
    IF stns = {} THEN <<>>
    ELSE LET ended == {s \in stns : Len(s.StationID) < p}
         IN  (IF ended = {} THEN <<>> ELSE <<CHOOSE s \in ended : TRUE>>)
                 \o OrderBuckets(stns \ ended, p, 1)

OrderBuckets(stns, p, c) ==
    IF c > Len(CharOrder) \/ stns = {} THEN <<>>
    ELSE LET b == {s \in stns : s.StationID[p] = CharOrder[c]}
         IN  OrderFrom(b, p + 1) \o OrderBuckets(stns \ b, p, c + 1)

OrderByStationID(stns) == OrderFrom(stns, 1)

\* the limit CalculateAllStatistics passes to ListStations
ListLimit == 10000

\* weatherRepository.ListStations, when its query succeeds
ListStations(stns, limit, offset) ==
    LET all == OrderByStationID(stns)
    IN  SubSeq(all, offset + 1, Min(Len(all), offset + limit))

FirstYear == 1985
LastYear == 2014

\* number of per-pair failures injected into one recomputation, and the years
\* they are injected in: the first, one in between, the last
MaxStatErrors == 1
FaultYears == {FirstYear, 2013, LastYear}

\* CalculateAllStatistics up to its loops
CalculateAllStatistics(listOK) ==
    /\ pc = "reported"
    /\ IF listOK
       THEN /\ listed' = ListStations(stations, ListLimit, 0)
            /\ stationIdx' = 1
            /\ year' = FirstYear
            /\ err' = ""
            /\ pc' = "stats"
       ELSE /\ listed' = <<>>
            /\ stationIdx' = 0
            /\ year' = 0
            /\ err' = "failed to list stations"
            /\ pc' = "statsfailed"
    /\ stats' = NoStats
    /\ statLog' = EmptyStatLog
    /\ UNCHANGED <<dir, stations, observations, obsSeq, now, run, batchSize, fileIdx, result,
                   fres, batch, linePos, scanErr, printed, trace, snap, conv, statistics, statSeq>>

ShouldSaveAlways(st) == TRUE

\* only save if there are observations
ShouldSave(st) == st.ObservationCount > 0

NextAfterPairAbort(failed) == IF failed THEN "statsfailed" ELSE "stats"

\* where the loop body goes after a pair: `continue` after an error as after a success
NextAfterPair(failed) == "stats"

\* one iteration of the loop over the years of a station: the pair is computed and,
\* when it has observations, saved; outcome "calc" is a failing
\* CalculateYearlyStatistics, "save" a failing UpsertStatistics, either of them
\* injected only where mayFail allows
CalculatePairWith(outcome, mayFail) ==
    /\ pc = "stats"
    /\ stationIdx <= Len(listed)
    /\ outcome # "ok" => mayFail
    /\ LET id     == listed[stationIdx].StationID
           st     == CalculateYearlyStatistics(observations, id, year, now)
           save   == outcome # "calc" /\ ShouldSave(st)
           saved  == save /\ outcome = "ok" /\ StatisticsConstraintsOK(stations, st)
           failed == outcome = "calc" \/ (save /\ ~saved)
       IN  /\ outcome = "save" => save
           /\ stats' = IF outcome = "calc" THEN NoStats ELSE st
           /\ statistics' = IF saved THEN UpsertStatistics(statistics, statSeq + 1, st) ELSE statistics
           /\ statSeq' = IF save /\ outcome = "ok" THEN statSeq + 1 ELSE statSeq
           /\ statLog' = [errors     |-> IF failed THEN statLog.errors + 1 ELSE statLog.errors,
                          failed     |-> IF failed THEN statLog.failed \cup {<<id, year>>}
                                         ELSE statLog.failed,
                          totalStats |-> IF saved THEN statLog.totalStats + 1
                                         ELSE statLog.totalStats]
           /\ pc' = NextAfterPair(failed)
    /\ year' = IF year = LastYear THEN FirstYear ELSE year + 1
    /\ stationIdx' = IF year = LastYear THEN stationIdx + 1 ELSE stationIdx
    /\ UNCHANGED <<dir, stations, observations, obsSeq, now, run, batchSize, fileIdx, result,
                   fres, batch, linePos, scanErr, err, printed, trace, snap, conv, listed>>

\* the iteration with at most MaxStatErrors failures, in the years of FaultYears
CalculatePair(outcome) ==
    CalculatePairWith(outcome, statLog.errors < MaxStatErrors /\ year \in FaultYears)

StatisticsReturnErrorAfterFailure ==
    /\ pc = "stats"
    /\ stationIdx > Len(listed)
    /\ pc' = IF statLog.errors > 0 THEN "statsfailed" ELSE "statsdone"
    /\ UNCHANGED <<dir, stations, observations, obsSeq, now, run, batchSize, fileIdx, result,
                   fres, batch, linePos, scanErr, err, printed, trace, snap, conv, statVars>>

\* CalculateAllStatistics after its loops
StatisticsReturn ==
    /\ pc = "stats"
    /\ stationIdx > Len(listed)
    /\ pc' = "statsdone"
    /\ UNCHANGED <<dir, stations, observations, obsSeq, now, run, batchSize, fileIdx, result,
                   fres, batch, linePos, scanErr, err, printed, trace, snap, conv, statVars>>

\* the data files the recomputation is exercised on: days of 2013 and of 1985,
\* with and without absent values
LnNextDay == JoinTab(<<DateText(2013, 1, 16), IntText(255), IntText(144), IntText(Sentinel)>>)

StatLineSet == {LnFull, LnMissing, LnNextDay, LnOther}

\* directories of exactly n files holding at most k lines of S in all
RECURSIVE DirsFrom(_, _, _)
DirsFrom(S, n, k) ==
    IF n = 0 THEN {<<>>}
    ELSE UNION {{Append(d, [path |-> FileName(n), lines |-> ls]) : d \in DirsFrom(S, n - 1, k - Len(ls))} :
                   ls \in SeqsUpTo(S, k)}

InitStats == InitWith(UNION {DirsFrom(StatLineSet, n, MaxLines) : n \in 1..MaxFiles}, {ConvIdle})

CommitFails == [at |-> "commit", k |-> 0]

NextStats ==
    \/ IngestDirectory(1, MaxRuns)
    \/ BeginFile("ok")
    \/ ScanLine
    \/ ScanStop(FALSE)
    \/ \E failAt \in {NoFailure, CommitFails} : FlushBatch(failAt)
    \/ FinishFile(NoFailure)
    \/ Return
    \/ MainReport
    \/ \E listOK \in BOOLEAN : CalculateAllStatistics(listOK)
    \/ \E outcome \in {"ok", "calc", "save"} : CalculatePair(outcome)
    \/ StatisticsReturn

SpecStats == InitStats /\ [][NextStats]_vars

\* ------------------------------------------------------------------------
\* The parser and the normalizer on one line of text
\* ------------------------------------------------------------------------
ConvValues == {Sentinel, 0 - 10000, 0 - 9998, 0 - 100, 0 - 50, 0 - 1, 0, 1, 123, 144, 150, 250, 255}

ConvDates == {DateText(2023, 1, 15), DateText(1985, 12, 31), DateText(2012, 2, 29),
              DateText(2013, 2, 29), DateText(2023, 13, 1), DateText(2023, 1, 0),
              DashedDateText(2023, 1, 15), NatText(2023011)}

ConvOddLines ==
    {JoinTab(<<DateText(2023, 1, 15), IntText(250), IntText(150)>>),
     JoinTab(<<DateText(2023, 1, 15), IntText(250), IntText(150), IntText(100), IntText(7)>>),
     JoinTab(<<DateText(2023, 1, 15), <<"a", "b">>, IntText(150), IntText(100)>>),
     JoinTab(<<DateText(2023, 1, 15), IntText(250), <<>>, IntText(100)>>),
     JoinTab(<<DateText(2023, 1, 15), IntText(250), IntText(150), <<"1", "-">>>>),
     JoinTab(<<DateText(2023, 1, 15), <<"-">>, IntText(150), IntText(100)>>),
     JoinTab(<<DateText(2023, 1, 15), <<"2", " ", "5">>, IntText(150), IntText(100)>>),
     JoinTab(<<<<SPACE>> \o DateText(2023, 1, 15) \o <<SPACE>>, <<SPACE, "+", "2", "5", "0", SPACE>>,
               <<SPACE>> \o IntText(Sentinel), IntText(100) \o <<SPACE, SPACE>>>>),
     <<>>}

ConvLines == {JoinTab(<<d, IntText(a), IntText(b), IntText(c)>>) :
                 d \in ConvDates, a \in ConvValues, b \in ConvValues, c \in ConvValues}
             \cup ConvOddLines

ConvStation == <<"T", "E", "S", "T", "0", "0", "1">>

InitConv ==
    InitWith({<<>>}, {[stage |-> "line", line |-> l, raw |-> NoRaw, obs |-> NoObs] : l \in ConvLines})

\* IngestionService.parseLine on the line
ConvParse ==
    /\ conv.stage = "line"
    /\ conv' = IF parseLineOK(conv.line)
               THEN [conv EXCEPT !.stage = "raw", !.raw = parseLine(conv.line)]
               ELSE [conv EXCEPT !.stage = "parse_error"]
    /\ UNCHANGED <<dir, stations, observations, obsSeq, now, run, pc, batchSize, fileIdx, result,
                   fres, batch, linePos, scanErr, err, printed, trace, snap, statVars>>

\* RawWeatherRecord.ToObservation on the parsed record
ConvNormalize ==
    /\ conv.stage = "raw"
    /\ conv' = IF ToObservationOK(conv.raw)
               THEN [conv EXCEPT !.stage = "obs", !.obs = ToObservation(conv.raw, ConvStation, now)]
               ELSE [conv EXCEPT !.stage = "date_error"]
    /\ UNCHANGED <<dir, stations, observations, obsSeq, now, run, pc, batchSize, fileIdx, result,
                   fres, batch, linePos, scanErr, err, printed, trace, snap, statVars>>

NextConv == ConvParse \/ ConvNormalize

SpecConv == InitConv /\ [][NextConv]_vars

\* ------------------------------------------------------------------------
\* Properties
\* ------------------------------------------------------------------------
IsAbsent(x) == x = NULL

\* x is the real number n / d
IsQuotient(x, n, d) == x.den > 0 /\ x.num * d = n * x.den

\* C1: for a record with a valid date, each of the three optional fields of the
\* Observation is absent exactly when its own raw tenths value is -9999, whatever
\* the other two are; the only failure of ToObservation is a bad date, so a
\* record of three sentinels with a valid date yields an all-absent Observation.
C1_AbsentIffSentinel ==
    /\ conv.stage = "obs" =>
          /\ IsAbsent(conv.obs.MaxTemperatureCelsius) <=> conv.raw.MaxTemperatureTenths = Sentinel
          /\ IsAbsent(conv.obs.MinTemperatureCelsius) <=> conv.raw.MinTemperatureTenths = Sentinel
          /\ IsAbsent(conv.obs.PrecipitationCm) <=> conv.raw.PrecipitationTenths = Sentinel
    /\ conv.stage = "date_error" => ~ParseDateOK(conv.raw.Date)

C1_Witness ==
    /\ conv.stage = "obs"
    /\ conv.raw.MaxTemperatureTenths = Sentinel
    /\ conv.raw.MinTemperatureTenths = Sentinel
    /\ conv.raw.PrecipitationTenths = Sentinel
    /\ IsAbsent(conv.obs.MaxTemperatureCelsius)
    /\ IsAbsent(conv.obs.MinTemperatureCelsius)
    /\ IsAbsent(conv.obs.PrecipitationCm)

\* C2: every raw value v other than -9999 becomes v / 10 in a temperature field
\* and v / 100 in the precipitation field, sign kept, each field on its own
\* (255 -> 25.5, 144 -> 14.4, 123 -> 1.23, -50 -> -5.0).
C2_UnitConversion ==
    conv.stage = "obs" =>
       LET r == conv.raw
           o == conv.obs
       IN  /\ r.MaxTemperatureTenths # Sentinel =>
                 /\ IsQuotient(o.MaxTemperatureCelsius, r.MaxTemperatureTenths, 10)
                 /\ (o.MaxTemperatureCelsius.num < 0) <=> (r.MaxTemperatureTenths < 0)
           /\ r.MinTemperatureTenths # Sentinel =>
                 /\ IsQuotient(o.MinTemperatureCelsius, r.MinTemperatureTenths, 10)
                 /\ (o.MinTemperatureCelsius.num < 0) <=> (r.MinTemperatureTenths < 0)
           /\ r.PrecipitationTenths # Sentinel =>
                 /\ IsQuotient(o.PrecipitationCm, r.PrecipitationTenths, 100)
                 /\ (o.PrecipitationCm.num < 0) <=> (r.PrecipitationTenths < 0)
           /\ r.MaxTemperatureTenths = 255 => o.MaxTemperatureCelsius = [num |-> 51, den |-> 2]
           /\ r.MinTemperatureTenths = 144 => o.MinTemperatureCelsius = [num |-> 72, den |-> 5]
           /\ r.PrecipitationTenths = 123 => o.PrecipitationCm = [num |-> 123, den |-> 100]
           /\ r.MaxTemperatureTenths = 0 - 50 => o.MaxTemperatureCelsius = [num |-> 0 - 5, den |-> 1]

C2_Witness ==
    /\ conv.stage = "obs"
    /\ conv.raw.MaxTemperatureTenths = 0 - 50
    /\ conv.raw.MinTemperatureTenths = 0 - 100
    /\ conv.raw.PrecipitationTenths = 123
    /\ conv.obs.MaxTemperatureCelsius = [num |-> 0 - 5, den |-> 1]
    /\ conv.obs.PrecipitationCm = [num |-> 123, den |-> 100]


\* ---- the history of the current run -------------------------------------
TraceIdx == 1..Len(trace)

IsFailure(e) == (e.ev \in {"station", "open", "upsert"} /\ ~e.ok) \/ e.ev = "readerr"

\* ingestFile of file f returned an error in this run
FileFailed(f) == \E i \in TraceIdx : trace[i].f = f /\ IsFailure(trace[i])

\* number of files whose ingestFile call has begun in this run
FilesBegun == Cardinality({i \in TraceIdx : trace[i].ev = "file"})

\* number of files whose ingestFile call has returned in this run
FilesDone == IF pc \in {"idle", "failed"} THEN 0 ELSE fileIdx - 1

LineGood(line) == parseLineOK(line) /\ ToObservationOK(parseLine(line))

\* the observations ingestFile builds from the lines of file f, in file order
RECURSIVE GoodObsFrom(_, _, _)
GoodObsFrom(f, i, at) ==
    IF i > Len(dir[f].lines) THEN <<>>
    ELSE IF LineGood(dir[f].lines[i])
         THEN <<ToObservation(parseLine(dir[f].lines[i]), StationIDOf(dir[f].path), at)>>
              \o GoodObsFrom(f, i + 1, at)
    ELSE GoodObsFrom(f, i + 1, at)

SameValues(r, o) ==
    /\ r.MaxTemperatureCelsius = o.MaxTemperatureCelsius
    /\ r.MinTemperatureCelsius = o.MinTemperatureCelsius
    /\ r.PrecipitationCm = o.PrecipitationCm

RunReturned == pc \in {"returned", "reported"}

\* C3: there is never more than one row per (stationId, date); a run that ingests
\* every file without error leaves, for every line that normalizes, one row with
\* the values of the last such line of that day and no other row; and when the
\* run before it had ingested the same files without error too, with the same or
\* another batch size, the table is exactly the table that run had left.
C3_ReingestIdempotent ==
    /\ \A r1, r2 \in observations : KeyOf(r1) = KeyOf(r2) => r1 = r2
    /\ (RunReturned /\ Len(result.Errors) = 0) =>
          /\ \A f \in 1..Len(dir) :
                LET obs == GoodObsFrom(f, 1, now)
                IN  \A k \in 1..Len(obs) :
                       \E r \in observations :
                          /\ KeyOf(r) = KeyOf(obs[k])
                          /\ \E m \in k..Len(obs) :
                                /\ KeyOf(obs[m]) = KeyOf(obs[k])
                                /\ SameValues(r, obs[m])
                                /\ \A n \in (m + 1)..Len(obs) : KeyOf(obs[n]) # KeyOf(obs[k])
          /\ \A r \in observations :
                \E f \in 1..Len(dir) :
                   LET obs == GoodObsFrom(f, 1, now)
                   IN  \E k \in 1..Len(obs) : KeyOf(obs[k]) = KeyOf(r)
          /\ snap.valid => observations = snap.observations

C3_Witness ==
    /\ run = 2
    /\ RunReturned
    /\ Len(result.Errors) = 0
    /\ snap.valid
    /\ snap.batchSize = 2
    /\ batchSize = 1
    /\ Cardinality(observations) = 1
    /\ result.SuccessfulRecords = 2
    /\ observations = snap.observations

IsUpsertStep == Len(trace') = Len(trace) + 1 /\ trace'[Len(trace')].ev = "upsert"

\* C4: a batch upsert that returns an error leaves the table as it was before the
\* call; one that returns nil leaves, for every observation of the batch, a row of
\* its (stationId, date) holding the values of the batch's last observation of
\* that day.
C4_BatchAllOrNothing ==
    [][IsUpsertStep =>
         LET e == trace'[Len(trace')]
         IN  IF e.ok
             THEN \A k \in 1..Len(e.rows) :
                     \E r \in observations' :
                        /\ KeyOf(r) = KeyOf(e.rows[k])
                        /\ \E m \in k..Len(e.rows) :
                              /\ KeyOf(e.rows[m]) = KeyOf(e.rows[k])
                              /\ SameValues(r, e.rows[m])
                              /\ \A n \in (m + 1)..Len(e.rows) : KeyOf(e.rows[n]) # KeyOf(e.rows[k])
             ELSE observations' = observations]_vars

\* a two-row batch failed after its first row had been executed, and nothing of it is stored
C4_Witness ==
    /\ Len(trace) > 0
    /\ trace[Len(trace)].ev = "upsert"
    /\ ~trace[Len(trace)].ok
    /\ Len(trace[Len(trace)].rows) = 2
    /\ obsSeq >= 1
    /\ observations = {}

\* C5: once a batch flush of a file has failed, nothing more happens for that file
\* (no line read, no batch upsert), its error is in the run's error list, and the
\* run goes on with the next file instead of returning an error.
C5_FlushFailureEndsFile ==
    \A i \in TraceIdx :
       (trace[i].ev = "upsert" /\ ~trace[i].ok) =>
          /\ \A j \in TraceIdx : j > i => trace[j].f > trace[i].f
          /\ i < Len(trace) => trace[i + 1] = [ev |-> "file", f |-> trace[i].f + 1]
          /\ fileIdx = trace[i].f + 1 \/ (fileIdx > trace[i].f /\ Len(trace) > i)
          /\ pc # "failed"
          /\ \E k \in 1..Len(result.Errors) :
                /\ result.Errors[k].path = dir[trace[i].f].path
                /\ result.Errors[k].msg \in {"failed to insert batch", "failed to insert final batch"}

\* the first flush of a two-line file failed with a line unread, and the run went on to return
C5_Witness ==
    /\ RunReturned
    /\ Len(dir) = 2
    /\ Len(dir[1].lines) = 2
    /\ Len(dir[2].lines) = 0
    /\ \E i \in TraceIdx : trace[i].ev = "upsert" /\ trace[i].f = 1 /\ ~trace[i].ok /\ trace[i].inLoop
    /\ Cardinality({i \in TraceIdx : trace[i].ev = "line" /\ trace[i].f = 1}) = 1
    /\ \E i \in TraceIdx : trace[i] = [ev |-> "file", f |-> 2]

\* C6: the observations of every batch upsert that succeeded in this run stay in
\* the table, with the values of the last committed observation of their day,
\* whatever fails afterwards; no step ever removes a row.
C6_CommittedBatchesStay ==
    /\ [](\A i \in TraceIdx :
            (trace[i].ev = "upsert" /\ trace[i].ok) =>
               \A k \in 1..Len(trace[i].rows) :
                  \E r \in observations :
                     /\ KeyOf(r) = KeyOf(trace[i].rows[k])
                     /\ \E j \in i..Len(trace) :
                           /\ trace[j].ev = "upsert" /\ trace[j].ok
                           /\ \E m \in 1..Len(trace[j].rows) :
                                 /\ KeyOf(trace[j].rows[m]) = KeyOf(r)
                                 /\ SameValues(r, trace[j].rows[m]))
    /\ [][\A r \in observations : \E r2 \in observations' : r2.ID = r.ID /\ KeyOf(r2) = KeyOf(r)]_vars

\* the second flush of a file failed; the row of its first flush is there when the run has ended
C6_Witness ==
    /\ pc = "reported"
    /\ \E i, j \in TraceIdx :
          /\ i < j
          /\ trace[i].ev = "upsert" /\ trace[i].ok
          /\ trace[j].ev = "upsert" /\ ~trace[j].ok
          /\ trace[i].f = trace[j].f
          /\ \E r \in observations : KeyOf(r) = KeyOf(trace[i].rows[1]) /\ SameValues(r, trace[i].rows[1])

IsReadStep == pc = "scan" /\ linePos' = linePos + 1

\* C7: a line that fails parsing or normalization adds exactly 1 to the file's
\* failed counter, adds nothing to the batch and leaves the loop running: unless
\* reading itself fails, the next line is read. The line with date 2023-01-15
\* and fields 250, 150, 100 is such a line.
C7_BadLineSkipped ==
    /\ [][(IsReadStep /\ (~LineGood(CurFile.lines[linePos + 1]) \/ CurFile.lines[linePos + 1] = LnBadDate)) =>
            /\ fres'.FailedRecords = fres.FailedRecords + 1
            /\ fres'.TotalRecords = fres.TotalRecords + 1
            /\ fres'.SuccessfulRecords = fres.SuccessfulRecords
            /\ batch' = batch
            /\ observations' = observations
            /\ pc' = "scan"
            /\ fileIdx' = fileIdx]_vars
    /\ [](\A i \in TraceIdx :
            (trace[i].ev = "line" /\ ~trace[i].good /\ trace[i].n < Len(dir[trace[i].f].lines)) =>
               \/ i = Len(trace) /\ pc = "scan" /\ fileIdx = trace[i].f /\ linePos = trace[i].n
               \/ /\ i < Len(trace)
                  /\ trace[i + 1].f = trace[i].f
                  /\ trace[i + 1].ev \in {"line", "readerr"}
                  /\ trace[i + 1].ev = "line" => trace[i + 1].n = trace[i].n + 1)

\* a bad line was counted and the line after it was read and buffered
C7_Witness ==
    /\ pc = "scan"
    /\ fres.FailedRecords = 1
    /\ fres.TotalRecords = 2
    /\ Len(batch) = 1
    /\ Len(trace) >= 2
    /\ trace[Len(trace) - 1].ev = "line" /\ ~trace[Len(trace) - 1].good
    /\ trace[Len(trace)].ev = "line" /\ trace[Len(trace)].good
    /\ CurFile.lines[1] = LnBadDate

\* C8: for batchSize >= 1 the buffer never holds more than batchSize observations;
\* it holds fewer whenever a line is about to be read, is flushed the moment it
\* holds batchSize and is empty again before the next read; every flush issued
\* inside the loop carries exactly batchSize observations.
C8_BatchBounded ==
    batchSize >= 1 =>
       /\ Len(batch) <= batchSize
       /\ pc \in {"scan", "final"} => Len(batch) < batchSize
       /\ pc = "flush" => Len(batch) = batchSize
       /\ (pc = "scan" /\ Len(trace) > 0 /\ trace[Len(trace)].ev = "upsert") => batch = <<>>
       /\ \A i \in TraceIdx :
             (trace[i].ev = "upsert" /\ trace[i].inLoop) => Len(trace[i].rows) = batchSize

C8_Witness ==
    /\ batchSize = 2
    /\ pc = "scan"
    /\ batch = <<>>
    /\ Len(trace) > 0
    /\ trace[Len(trace)].ev = "upsert"
    /\ trace[Len(trace)].inLoop
    /\ trace[Len(trace)].ok
    /\ Len(trace[Len(trace)].rows) = 2

FileOfPath(path) == CHOOSE f \in 1..Len(dir) : dir[f].path = path

\* C9: a file whose ingestion fails (station, open, flush, read) leaves exactly
\* one error string in the run result and the run goes on: the files are begun
\* once each in enumeration order, IngestDirectory of a non-empty directory never
\* returns an error, and when it returns every file has been begun and
\* TotalFiles is their number.
C9_FileFailureRecordedRunContinues ==
    /\ (run >= 1 /\ Len(dir) > 0) => pc # "failed"
    /\ \A f \in 1..Len(dir) :
          Cardinality({k \in 1..Len(result.Errors) : result.Errors[k].path = dir[f].path})
             = IF FileFailed(f) /\ f <= FilesDone THEN 1 ELSE 0
    /\ \A k, l \in 1..Len(result.Errors) :
          k < l => FileOfPath(result.Errors[k].path) < FileOfPath(result.Errors[l].path)
    /\ \A f \in 1..Len(dir) :
          Cardinality({i \in TraceIdx : trace[i].ev = "file" /\ trace[i].f = f})
             = IF f <= FilesBegun THEN 1 ELSE 0
    /\ \A i, j \in TraceIdx :
          (i < j /\ trace[i].ev = "file" /\ trace[j].ev = "file") => trace[i].f < trace[j].f
    /\ RunReturned => FilesBegun = Len(dir) /\ result.TotalFiles = Len(dir) /\ fileIdx = Len(dir) + 1

\* both files of a directory failed, and the run returned its result
C9_Witness ==
    /\ pc = "returned"
    /\ Len(dir) = 2
    /\ Len(result.Errors) = 2
    /\ FileFailed(1)
    /\ FileFailed(2)
    /\ result.TotalFiles = 2


RECURSIVE CommittedUpTo(_)
CommittedUpTo(i) ==
    IF i = 0 THEN 0
    ELSE CommittedUpTo(i - 1)
            + (IF trace[i].ev = "upsert" /\ trace[i].ok THEN Len(trace[i].rows) ELSE 0)

LinesRead == Cardinality({i \in TraceIdx : trace[i].ev = "line"})

LinesRejected == Cardinality({i \in TraceIdx : trace[i].ev = "line" /\ ~trace[i].good})

\* C11: when a run returns a result, SuccessfulRecords is the number of
\* observations its batch upserts committed, TotalRecords the number of lines it
\* read and FailedRecords the number of lines it rejected, the lines and the
\* committed batches of a file whose later flush or read failed included.
C11_ResultCountsCommitted ==
    RunReturned =>
       /\ result.SuccessfulRecords = CommittedUpTo(Len(trace))
       /\ result.TotalRecords = LinesRead
       /\ result.FailedRecords = LinesRejected

\* the last observation of the rows that has the (stationId, date) of r
LastOfKey(rows, r) ==
    rows[CHOOSE m \in 1..Len(rows) :
            /\ KeyOf(rows[m]) = KeyOf(r)
            /\ \A n \in (m + 1)..Len(rows) : KeyOf(rows[n]) # KeyOf(r)]

IsStationStep ==
    /\ pc = "file"
    /\ Len(trace') >= Len(trace) + 2
    /\ trace'[Len(trace) + 2].ev = "station"
    /\ trace'[Len(trace) + 2].ok

\* C13: there is never more than one Station row per stationId and no step ever
\* changes or removes a stored Station row; a CreateStation that succeeds leaves
\* the row of its stationId as it was when there was one, and inserts exactly one
\* row (state from the identifier, createdAt = updatedAt = the time of the call)
\* when there was none.
C13_StationInsertIfAbsent ==
    /\ [](\A s1, s2 \in stations : s1.StationID = s2.StationID => s1 = s2)
    /\ [][\A s \in stations : s \in stations']_vars
    /\ [][IsStationStep =>
            LET id == CurStation
            IN  IF \E s \in stations : s.StationID = id
                THEN stations' = stations
                ELSE stations' = stations \cup {[StationID |-> id,
                                                 State     |-> extractStateFromStationID(id),
                                                 CreatedAt |-> now,
                                                 UpdatedAt |-> now]}]_vars

\* the second ingestion of a file has ensured its station, and the row is still
\* the one the first ingestion inserted
C13_Witness ==
    /\ run = 2
    /\ now = 2
    /\ \E i \in TraceIdx :
          /\ trace[i].ev = "station"
          /\ trace[i].ok
          /\ \E s \in stations :
                /\ s.StationID = StationIDOf(dir[trace[i].f].path)
                /\ s.CreatedAt = 1
                /\ s.UpdatedAt = 1
                /\ s \in snap.stations
                /\ \A s2 \in stations : s2.StationID = s.StationID => s2 = s

\* C14: on a directory without candidate files every IngestDirectory call returns
\* the error "no data files found" and no result, and performs no persistence
\* operation: no station is created, no batch is upserted, nothing is reported.
C14_NoFilesIsFatal ==
    (Len(dir) = 0 /\ run > 0) =>
       /\ pc = "failed"
       /\ err = "no data files found"
       /\ result = EmptyResult
       /\ trace = <<>>
       /\ stations = {}
       /\ observations = {}
       /\ obsSeq = 0
       /\ printed = NothingPrinted

C14_Witness ==
    /\ Len(dir) = 0
    /\ run = 2
    /\ pc = "failed"
    /\ err = "no data files found"
    /\ stations = {}
    /\ observations = {}

\* ---- the shape of a line, read off its characters -------------------------
TabsOf(line) == {i \in 1..Len(line) : line[i] = TAB}

\* position of the k-th tab of the line; 0 before the first, Len + 1 after the last
TabPos(line, k) ==
    IF k = 0 THEN 0
    ELSE IF k > Cardinality(TabsOf(line)) THEN Len(line) + 1
    ELSE CHOOSE i \in TabsOf(line) : Cardinality({j \in TabsOf(line) : j <= i}) = k

\* the k-th tab-separated field of the line
FieldOf(line, k) == SubSeq(line, TabPos(line, k - 1) + 1, TabPos(line, k) - 1)

\* a field without its surrounding white space
CoreOf(s) ==
    LET inked == {i \in 1..Len(s) : s[i] # SPACE /\ s[i] # TAB}
    IN  IF inked = {} THEN <<>>
        ELSE SubSeq(s, CHOOSE i \in inked : \A j \in inked : i <= j,
                       CHOOSE i \in inked : \A j \in inked : j <= i)

\* decimal text of an integer: an optional sign, then digits only, at least one
IsIntegerText(s) ==
    \E first \in 1..2 :
       /\ first = 2 => (Len(s) >= 1 /\ s[1] \in {"+", "-"})
       /\ Len(s) >= first
       /\ \A i \in first..Len(s) : s[i] \in {"0", "1", "2", "3", "4", "5", "6", "7", "8", "9"}

WellShaped(line) ==
    /\ Cardinality(TabsOf(line)) = 3
    /\ \A k \in 2..4 : IsIntegerText(CoreOf(FieldOf(line, k)))

\* the integers the lines under test write
WrittenValues == ConvValues \cup {100}

Writes(core, v) == core = IntText(v) \/ core = <<"+">> \o IntText(v)

\* C15: parseLine succeeds exactly on the lines that split on the tab into 4
\* fields of which the 2nd, 3rd and 4th are integers once trimmed; the record
\* then holds the trimmed 1st field as its date, whatever its shape, and the
\* three integers written; a failed parseLine returns no record.
C15_ParseLineContract ==
    /\ conv.stage # "line" => (conv.stage # "parse_error" <=> WellShaped(conv.line))
    /\ conv.stage = "parse_error" => conv.raw = NoRaw
    /\ conv.stage \in {"raw", "obs", "date_error"} =>
          LET f2 == CoreOf(FieldOf(conv.line, 2))
              f3 == CoreOf(FieldOf(conv.line, 3))
              f4 == CoreOf(FieldOf(conv.line, 4))
          IN  /\ conv.raw.Date = CoreOf(FieldOf(conv.line, 1))
              /\ \E v \in WrittenValues : Writes(f2, v) /\ conv.raw.MaxTemperatureTenths = v
              /\ \E v \in WrittenValues : Writes(f3, v) /\ conv.raw.MinTemperatureTenths = v
              /\ \E v \in WrittenValues : Writes(f4, v) /\ conv.raw.PrecipitationTenths = v

\* a line whose fields are padded with blanks, one of them signed with +, parsed
C15_Witness ==
    /\ conv.stage = "raw"
    /\ \E i \in 1..Len(conv.line) : conv.line[i] = SPACE
    /\ \E i \in 1..Len(conv.line) : conv.line[i] = "+"
    /\ conv.raw = [Date                 |-> DateText(2023, 1, 15),
                   MaxTemperatureTenths |-> 250,
                   MinTemperatureTenths |-> Sentinel,
                   PrecipitationTenths  |-> 100]

\* calendar days and impossible days among the dates under test
RealDays == {<<2023, 1, 15>>, <<1985, 12, 31>>, <<2012, 2, 29>>}

UnrealDays == {<<2013, 2, 29>>, <<2023, 13, 1>>, <<2023, 1, 0>>}

EightDigits(s) ==
    Len(s) = 8 /\ \A i \in 1..8 : s[i] \in {"0", "1", "2", "3", "4", "5", "6", "7", "8", "9"}

\* C16: ToObservation fails, returning no Observation, whenever the record's date
\* is not 8 digits (2023-01-15, 2023011) or names no calendar day (20130229,
\* 20231301, 20230100); for the YYYYMMDD text of a calendar day it returns an
\* Observation of that day (20230115 -> 2023-01-15) and of the given station.
C16_DateContract ==
    conv.stage \in {"obs", "date_error"} =>
       /\ ~EightDigits(conv.raw.Date) => conv.stage = "date_error"
       /\ \A t \in UnrealDays : conv.raw.Date = DateText(t[1], t[2], t[3]) => conv.stage = "date_error"
       /\ conv.stage = "date_error" => conv.obs = NoObs
       /\ \A t \in RealDays :
             conv.raw.Date = DateText(t[1], t[2], t[3]) =>
                /\ conv.stage = "obs"
                /\ conv.obs.ObservationDate = [year |-> t[1], month |-> t[2], day |-> t[3]]
                /\ conv.obs.StationID = ConvStation
       /\ conv.stage = "obs" => \E t \in RealDays : conv.raw.Date = DateText(t[1], t[2], t[3])

C16_Witness ==
    /\ conv.stage = "obs"
    /\ conv.raw.Date = <<"2", "0", "2", "3", "0", "1", "1", "5">>
    /\ conv.obs.ObservationDate = [year |-> 2023, month |-> 1, day |-> 15]
    /\ conv.obs.StationID = <<"T", "E", "S", "T", "0", "0", "1">>
    /\ conv.raw.MaxTemperatureTenths = 250
    /\ conv.raw.MinTemperatureTenths = 150
    /\ conv.raw.PrecipitationTenths = 123

\* ---- the recomputation of the statistics ---------------------------------
\* the step is one iteration of the loop over the years
IsPairStep == pc = "stats" /\ year' # year

\* the station of the current iteration
PairStation == listed[stationIdx].StationID

\* number of stored observations of a station in a year
ObservationsIn(id, y) ==
    Cardinality({o \in observations : o.StationID = id /\ o.ObservationDate.year = y})

\* C17: an iteration that computes a (station, year) pair without observations
\* writes nothing: the statistics table and its sequence are as before, no error
\* is logged and the recomputation goes on; so no stored YearStatistic row has
\* observationCount 0 or belongs to a pair without observations.
C17_ZeroCountPairWritesNothing ==
    /\ [](\A r \in statistics : r.ObservationCount > 0 /\ ObservationsIn(r.StationID, r.Year) > 0)
    /\ [][(IsPairStep /\ stats' # NoStats /\ ObservationsIn(PairStation, year) = 0) =>
            /\ stats'.ObservationCount = 0
            /\ stats'.StationID = PairStation
            /\ stats'.Year = year
            /\ statistics' = statistics
            /\ statSeq' = statSeq
            /\ statLog' = statLog
            /\ pc' = "stats"]_vars

\* the last year of a station that has rows for other years was just computed:
\* no observations, no row for it, no error
C17_Witness ==
    /\ pc = "stats"
    /\ stats # NoStats
    /\ stats.Year = LastYear
    /\ stats.ObservationCount = 0
    /\ statLog.errors = 0
    /\ statLog.totalStats = 2
    /\ \E r \in statistics : r.StationID = stats.StationID
    /\ \A r \in statistics : ~(r.StationID = stats.StationID /\ r.Year = stats.Year)

\* number of stored observations of a station in a year whose field is present
PresentIn(id, y, field) ==
    Cardinality({o \in observations :
                    o.StationID = id /\ o.ObservationDate.year = y /\ ~IsAbsent(o[field])})

CountsBounded(r) ==
    /\ r.ValidMaxTempCount >= 0 /\ r.ValidMaxTempCount <= r.ObservationCount
    /\ r.ValidMinTempCount >= 0 /\ r.ValidMinTempCount <= r.ObservationCount
    /\ r.ValidPrecipitationCount >= 0 /\ r.ValidPrecipitationCount <= r.ObservationCount

CountsOfStorage(r) ==
    /\ r.ObservationCount = ObservationsIn(r.StationID, r.Year)
    /\ r.ValidMaxTempCount = PresentIn(r.StationID, r.Year, "MaxTemperatureCelsius")
    /\ r.ValidMinTempCount = PresentIn(r.StationID, r.Year, "MinTemperatureCelsius")
    /\ r.ValidPrecipitationCount = PresentIn(r.StationID, r.Year, "PrecipitationCm")

\* the recomputation is under way or has returned: no observation has changed since it began
Recomputing == pc \in {"stats", "statsdone"}

\* C18: every YearStatistic computed and every YearStatistic row stored has its
\* three valid counts between 0 and its observationCount; what the current
\* recomputation has computed or written counts the stored observations of the
\* station in the year, and of those the ones whose field is present.
C18_ValidCountsBounded ==
    /\ \A r \in statistics : CountsBounded(r)
    /\ stats # NoStats => CountsBounded(stats)
    /\ Recomputing =>
          /\ stats # NoStats => CountsOfStorage(stats)
          /\ \A r \in statistics : r.UpdatedAt = now => CountsOfStorage(r)

\* a stored row of two observations, one without maximum, the other without precipitation
C18_Witness ==
    \E r \in statistics :
       /\ r.Year = 2013
       /\ r.ObservationCount = 2
       /\ r.ValidMaxTempCount = 1
       /\ r.ValidMinTempCount = 2
       /\ r.ValidPrecipitationCount = 1

\* a stored value of at most two decimals, in hundredths
Hundredths(x) == (x.num * 100) \div x.den

\* the present values of a field over a set of observations, summed in hundredths
RECURSIVE SumHundredths(_, _)
SumHundredths(rows, field) ==
    IF rows = {} THEN 0
    ELSE LET o == CHOOSE x \in rows : TRUE
         IN  (IF IsAbsent(o[field]) THEN 0 ELSE Hundredths(o[field]))
                + SumHundredths(rows \ {o}, field)

ObservationsOf(id, y) == {o \in observations : o.StationID = id /\ o.ObservationDate.year = y}

\* x is the mean of the present values of the field over the rows
IsMeanOfPresent(x, rows, field) ==
    LET n == Cardinality({o \in rows : ~IsAbsent(o[field])})
    IN  n > 0 => (x.den > 0 /\ x.num * 100 * n = SumHundredths(rows, field) * x.den)

\* x is the sum of the present values of the field over the rows
IsSumOfPresent(x, rows, field) ==
    (\E o \in rows : ~IsAbsent(o[field])) =>
       (x.den > 0 /\ x.num * 100 = SumHundredths(rows, field) * x.den)

\* C19: the YearStatistic computed for a station and year has, as avgMaxTempC and
\* avgMinTempC, the sum of the present maxima (minima) of the station's
\* observations of that year divided by the number of them, and as totalPrecipCm
\* the sum of the present precipitations; an absent value adds nothing to a sum
\* and nothing to a divisor (maxima [25.5, absent] average 25.5).
C19_AveragesOverPresentValues ==
    (Recomputing /\ stats # NoStats) =>
       LET rows == ObservationsOf(stats.StationID, stats.Year)
       IN  /\ IsMeanOfPresent(stats.AvgMaxTemperatureCelsius, rows, "MaxTemperatureCelsius")
           /\ IsMeanOfPresent(stats.AvgMinTemperatureCelsius, rows, "MinTemperatureCelsius")
           /\ IsSumOfPresent(stats.TotalPrecipitationCm, rows, "PrecipitationCm")

\* maxima [absent, 25.5], minima [15.0, 14.4], precipitations [1.00, absent]
C19_Witness ==
    /\ Recomputing
    /\ stats.ObservationCount = 2
    /\ stats.ValidMaxTempCount = 1
    /\ stats.AvgMaxTemperatureCelsius = [num |-> 51, den |-> 2]
    /\ stats.AvgMinTemperatureCelsius = [num |-> 147, den |-> 10]
    /\ stats.TotalPrecipitationCm = [num |-> 1, den |-> 1]

\* the (station, year) pair of the current iteration failed in this step
PairFailed == statLog'.errors = statLog.errors + 1

\* C20: every iteration of the recomputation, failed or not, is followed by the
\* next year of the station, or by the first year of the next station after the
\* last year: a failed CalculateYearlyStatistics or UpsertStatistics is logged,
\* leaves the statistics table as it was and does not end the recomputation.
\* When it returns, it has gone through every year of every station, and every
\* pair with observations that did not fail has a row written by it.
C20_PairFailureIsSkipped ==
    /\ [][IsPairStep =>
            /\ pc' = "stats"
            /\ listed' = listed
            /\ IF year = LastYear
               THEN year' = FirstYear /\ stationIdx' = stationIdx + 1
               ELSE year' = year + 1 /\ stationIdx' = stationIdx
            /\ PairFailed =>
                  /\ statistics' = statistics
                  /\ statLog'.failed = statLog.failed \cup {<<PairStation, year>>}]_vars
    /\ [](pc = "statsdone" =>
            /\ stationIdx = Len(listed) + 1
            /\ \A s \in stations : \E i \in 1..Len(listed) : listed[i] = s
            /\ \A i \in 1..Len(listed) : \A y \in FirstYear..LastYear :
                  (ObservationsIn(listed[i].StationID, y) > 0
                      /\ <<listed[i].StationID, y>> \notin statLog.failed) =>
                     \E r \in statistics :
                        /\ r.StationID = listed[i].StationID
                        /\ r.Year = y
                        /\ r.UpdatedAt = now
                        /\ CountsOfStorage(r))

\* the recomputation after the second ingestion returned; one pair failed and its
\* row is still the one the first recomputation wrote, while a later pair's row
\* was written again
C20_Witness ==
    /\ pc = "statsdone"
    /\ run = 2
    /\ statLog.errors = 1
    /\ \E p \in statLog.failed :
          /\ \E r \in statistics : r.StationID = p[1] /\ r.Year = p[2] /\ r.UpdatedAt = 1
          /\ \E r \in statistics :
                /\ r.UpdatedAt = 2
                /\ r.CreatedAt = 1
                /\ (r.StationID # p[1] \/ r.Year > p[2])

\* ------------------------------------------------------------------------
\* The recomputation over a station catalog left by earlier processes
\* ------------------------------------------------------------------------
\* the weather_stations rows of n stations ingested by earlier processes
Catalog(n) ==
    {[StationID |-> StationIDOf(FileName(Len(FileNames) + i)),
      State     |-> extractStateFromStationID(StationIDOf(FileName(Len(FileNames) + i))),
      CreatedAt |-> 0,
      UpdatedAt |-> 0] : i \in 1..n}

\* catalog sizes around the limit of the listing: with the station of the file
\* ingested now they make 1, ListLimit and ListLimit + 1 stations
CatalogSizes == {0, ListLimit - 1, ListLimit}

\* the loops over stations and years are stepped through for catalogs of at
\* most this many listed stations
MaxVisited == 2

InitCatalog ==
    InitFrom(DirsFrom({LnFull}, 1, 1), {ConvIdle}, {Catalog(n) : n \in CatalogSizes})

NextCatalog ==
    \/ IngestDirectory(1, 1)
    \/ BeginFile("ok")
    \/ ScanLine
    \/ ScanStop(FALSE)
    \/ FlushBatch(NoFailure)
    \/ FinishFile(NoFailure)
    \/ Return
    \/ MainReport
    \/ \E listOK \in BOOLEAN : CalculateAllStatistics(listOK)
    \/ Len(listed) <= MaxVisited /\ CalculatePair("ok")
    \/ StatisticsReturn

SpecCatalog == InitCatalog /\ [][NextCatalog]_vars

\* the stations the loop of CalculateAllStatistics ranges over
Visited == {listed[i] : i \in 1..Len(listed)}

\* the stored row of a (station, year) pair holds the aggregate of the
\* observations stored now
RowIsAggregate(id, y) ==
    LET st == CalculateYearlyStatistics(observations, id, y, now)
    IN  \E r \in statistics :
            /\ r.StationID = id /\ r.Year = y
            /\ r.ObservationCount = st.ObservationCount
            /\ r.ValidMaxTempCount = st.ValidMaxTempCount
            /\ r.ValidMinTempCount = st.ValidMinTempCount
            /\ r.ValidPrecipitationCount = st.ValidPrecipitationCount
            /\ r.AvgMaxTemperatureCelsius = st.AvgMaxTemperatureCelsius
            /\ r.AvgMinTemperatureCelsius = st.AvgMinTemperatureCelsius
            /\ r.TotalPrecipitationCm = st.TotalPrecipitationCm

\* C21: a recomputation whose listing succeeded ranges over every station of
\* weather_stations, whatever their number; and when it has returned without a
\* failure, every (station, year) of 1985..2014 with at least one stored
\* observation has a statistics row equal to the aggregate of its observations.
C21_VisitsEveryStation ==
    /\ pc \in {"stats", "statsdone"} => stations \subseteq Visited
    /\ (pc = "statsdone" /\ statLog.errors = 0) =>
           \A s \in stations : \A y \in FirstYear..LastYear :
               ObservationsIn(s.StationID, y) > 0 => RowIsAggregate(s.StationID, y)

\* ---- recomputing twice ----------------------------------------------------
StatKey(r) == <<r.StationID, r.Year>>

SameAggregates(q, r) ==
    /\ q.ObservationCount = r.ObservationCount
    /\ q.ValidMaxTempCount = r.ValidMaxTempCount
    /\ q.ValidMinTempCount = r.ValidMinTempCount
    /\ q.ValidPrecipitationCount = r.ValidPrecipitationCount
    /\ q.AvgMaxTemperatureCelsius = r.AvgMaxTemperatureCelsius
    /\ q.AvgMinTemperatureCelsius = r.AvgMinTemperatureCelsius
    /\ q.TotalPrecipitationCm = r.TotalPrecipitationCm

\* the recomputation under way or just returned follows a returned one, and the
\* observations are those the earlier one aggregated
RecomputedTwice ==
    /\ pc \in {"stats", "statsdone"}
    /\ snap.recomputed
    /\ observations = snap.observations

\* C22: there is never a second row for a (stationId, year); during and after a
\* recomputation that follows another with the observations unchanged, every
\* row the first one left is still there as the same row (id, created_at) with
\* the same counts, averages and total; and when the first one had saved every
\* pair it computed, the second one returns with the same set of (stationId,
\* year) rows.
C22_RecomputeIdempotent ==
    /\ \A q, r \in statistics : StatKey(q) = StatKey(r) => q = r
    /\ RecomputedTwice =>
          \A r \in snap.statistics :
             \E q \in statistics :
                /\ StatKey(q) = StatKey(r)
                /\ q.ID = r.ID
                /\ q.CreatedAt = r.CreatedAt
                /\ SameAggregates(q, r)
    /\ (RecomputedTwice /\ pc = "statsdone" /\ snap.statErrors = 0) =>
          {StatKey(q) : q \in statistics} = {StatKey(r) : r \in snap.statistics}

\* two stations with rows of 2013 and 1985 were recomputed twice without a
\* failure: the rows are the first run's, overwritten by the second
C22_Witness ==
    /\ RecomputedTwice
    /\ pc = "statsdone"
    /\ snap.statErrors = 0
    /\ statLog.errors = 0
    /\ statLog.totalStats = 2
    /\ Cardinality(statistics) = 2
    /\ \A q \in statistics : q.UpdatedAt > q.CreatedAt
    /\ \E q \in statistics : q.Year = 2013 /\ q.ValidMaxTempCount = 0 /\ q.ObservationCount = 1

\* ---- the batches of a file ------------------------------------------------
\* the observations passed to CreateObservationsBatch for file f, from position
\* i of the history on, batch after batch
RECURSIVE SentFrom(_, _)
SentFrom(f, i) ==
    IF i > Len(trace) THEN <<>>
    ELSE (IF trace[i].ev = "upsert" /\ trace[i].f = f THEN trace[i].rows ELSE <<>>)
             \o SentFrom(f, i + 1)

\* positions of the flushes of file f issued after its loop
FinalFlushes(f) ==
    {i \in TraceIdx : trace[i].ev = "upsert" /\ trace[i].f = f /\ ~trace[i].inLoop}

\* ingestFile of file f has returned its result: read to the end, no failure
FileIngested(f) == f <= FilesDone /\ ~FileFailed(f)

\* C23: no batch upsert is ever issued with an empty batch; and once ingestFile
\* has returned a result for a file (it was read to its end and no flush
\* failed), the batches it issued, one after the other, are exactly the
\* observations of its lines that normalize, each once and in file order; at
\* most one batch was issued after the loop, after the last line was read, and
\* for a batch size of at least 1 it is the only one that is not full.
C23_EachObservationInOneBatch ==
    /\ \A i \in TraceIdx : trace[i].ev = "upsert" => Len(trace[i].rows) > 0
    /\ \A f \in 1..Len(dir) :
          FileIngested(f) =>
             /\ SentFrom(f, 1) = GoodObsFrom(f, 1, now)
             /\ Cardinality(FinalFlushes(f)) <= 1
             /\ \A i \in FinalFlushes(f) :
                   \A j \in TraceIdx : (trace[j].f = f /\ j # i) => j < i
             /\ \A i \in TraceIdx :
                   (trace[i].ev = "upsert" /\ trace[i].f = f /\ batchSize >= 1) =>
                      IF trace[i].inLoop THEN Len(trace[i].rows) = batchSize
                      ELSE Len(trace[i].rows) < batchSize

\* the second file was ingested with batch size 1 from two lines of different
\* days: two batches of one observation, in file order, and none after the loop
C23_Witness ==
    /\ Len(dir) = 2
    /\ FileIngested(2)
    /\ batchSize = 1
    /\ dir[2].lines = <<LnOther, LnFull>>
    /\ SentFrom(2, 1) = GoodObsFrom(2, 1, now)
    /\ Len(SentFrom(2, 1)) = 2
    /\ FinalFlushes(2) = {}
    /\ FileIngested(1)

\* ---- a file whose station could not be created ------------------------------
\* CreateStation failed in the ingestFile call of file f of this run
StationFailed(f) ==
    \E i \in TraceIdx : trace[i].ev = "station" /\ trace[i].f = f /\ ~trace[i].ok

ObservationsOfStation(tbl, id) == {o \in tbl : o.StationID = id}

\* the step is an ingestFile call that ends at a failing CreateStation
IsStationFailureStep ==
    /\ pc = "file"
    /\ Len(trace') = Len(trace) + 2
    /\ trace'[Len(trace')].ev = "station"
    /\ ~trace'[Len(trace')].ok

\* C24: when CreateStation fails for a file, the history of the run holds no
\* open, no line, no read error and no batch upsert for that file, the
\* observations of its station are those stored before the run, and every
\* stored observation belongs to a stored station; the failing call changes no
\* table, adds one error naming the file to the result, leaves the counts as
\* they are and hands over to the next file.
C24_StationFailureReadsNothing ==
    /\ [](/\ \A o \in observations : \E s \in stations : s.StationID = o.StationID
          /\ \A f \in 1..Len(dir) :
                StationFailed(f) =>
                   /\ \A i \in TraceIdx :
                         trace[i].f = f => trace[i].ev \in {"file", "station"}
                   /\ ObservationsOfStation(observations, StationIDOf(dir[f].path))
                         = ObservationsOfStation(snap.observations, StationIDOf(dir[f].path)))
    /\ [][IsStationFailureStep =>
            /\ observations' = observations
            /\ stations' = stations
            /\ obsSeq' = obsSeq
            /\ Len(result'.Errors) = Len(result.Errors) + 1
            /\ result'.Errors[Len(result'.Errors)].path = dir[fileIdx].path
            /\ result'.Errors[Len(result'.Errors)].msg = "failed to create station"
            /\ result'.TotalRecords = result.TotalRecords
            /\ result'.SuccessfulRecords = result.SuccessfulRecords
            /\ result'.FailedRecords = result.FailedRecords
            /\ fileIdx' = fileIdx + 1
            /\ pc' = "file"]_vars

\* the station of the first file, which holds a good line, could not be
\* created; the second file was ingested and the run returned one error
C24_Witness ==
    /\ RunReturned
    /\ Len(dir) = 2
    /\ StationFailed(1)
    /\ dir[1].lines = <<LnFull>>
    /\ ObservationsOfStation(observations, StationIDOf(dir[1].path)) = {}
    /\ FileIngested(2)
    /\ Cardinality(observations) = 1
    /\ Len(result.Errors) = 1
    /\ result.SuccessfulRecords = 1

\* ---- the counts of a result ----------------------------------------------
Balanced(r) == r.TotalRecords = r.SuccessfulRecords + r.FailedRecords

\* the step is an ingestFile call returning a result without error
IsFileResultStep == pc = "final" /\ pc' = "file" /\ result'.Errors = result.Errors

\* what the step added to a count of the run result: the count of the
\* FileIngestionResult it returned
FileResultOfStep ==
    [TotalRecords      |-> result'.TotalRecords - result.TotalRecords,
     SuccessfulRecords |-> result'.SuccessfulRecords - result.SuccessfulRecords,
     FailedRecords     |-> result'.FailedRecords - result.FailedRecords]

\* C25: the run result satisfies TotalRecords = SuccessfulRecords +
\* FailedRecords in every state, so in every result IngestDirectory returns;
\* while a file is read, its total is the number of lines read, and it is the
\* failed count plus the successful count plus the observations buffered in the
\* batch; and every per-file result returned without error satisfies the
\* equality, its total being the number of lines of the file.
C25_TotalIsSuccessfulPlusFailed ==
    /\ [](/\ Balanced(result)
          /\ pc \in {"scan", "flush", "final"} =>
                /\ fres.TotalRecords = linePos
                /\ fres.TotalRecords = fres.SuccessfulRecords + fres.FailedRecords + Len(batch))
    /\ [][IsFileResultStep =>
            /\ Balanced(FileResultOfStep)
            /\ scanErr = FALSE
            /\ FileResultOfStep.TotalRecords = Len(dir[fileIdx].lines)
            /\ FileResultOfStep.SuccessfulRecords = fres.SuccessfulRecords + Len(batch)]_vars

\* a run over one file with a good and a bad line returned 2 = 1 + 1, the good
\* line counted at the flush after the loop
C25_Witness ==
    /\ RunReturned
    /\ batchSize = 2
    /\ Len(dir) = 1
    /\ Len(result.Errors) = 0
    /\ result.TotalRecords = 2
    /\ result.SuccessfulRecords = 1
    /\ result.FailedRecords = 1
    /\ Cardinality(FinalFlushes(1)) = 1

\* ---- a read error -----------------------------------------------------------
\* the step is ingestFile after its loop, the scanner having stopped on an error
IsReadErrorFinish == pc = "final" /\ scanErr

\* C26: when the scanner stopped on a read error, ingestFile still passes the
\* batch it holds, if any, to one batch upsert; when that commits, each of its
\* observations is stored with its values (the last of a day winning), the
\* file is reported as failed with "error reading file", and the counts of the
\* run result stay as they were; when it does not commit, the file is reported
\* as failed with the flush error.
C26_ReadErrorStillFlushes ==
    [][IsReadErrorFinish =>
         /\ IF Len(batch) > 0
            THEN /\ Len(trace') = Len(trace) + 1
                 /\ trace'[Len(trace')].ev = "upsert"
                 /\ trace'[Len(trace')].rows = batch
                 /\ ~trace'[Len(trace')].inLoop
                 /\ trace'[Len(trace')].ok =>
                       /\ \A k \in 1..Len(batch) :
                             \E r \in observations' :
                                /\ KeyOf(r) = KeyOf(batch[k])
                                /\ SameValues(r, LastOfKey(batch, batch[k]))
                       /\ result'.Errors[Len(result'.Errors)].msg = "error reading file"
                 /\ ~trace'[Len(trace')].ok =>
                       /\ observations' = observations
                       /\ result'.Errors[Len(result'.Errors)].msg = "failed to insert final batch"
            ELSE /\ trace' = trace
                 /\ observations' = observations
                 /\ result'.Errors[Len(result'.Errors)].msg = "error reading file"
         /\ Len(result'.Errors) = Len(result.Errors) + 1
         /\ result'.Errors[Len(result'.Errors)].path = dir[fileIdx].path
         /\ result'.TotalRecords = result.TotalRecords
         /\ result'.SuccessfulRecords = result.SuccessfulRecords
         /\ result'.FailedRecords = result.FailedRecords
         /\ fileIdx' = fileIdx + 1
         /\ pc' = "file"]_vars

\* the only file was read up to its first line when the scanner failed: the
\* observation of that line is stored, the file is reported as failed and the
\* result counts nothing
C26_Witness ==
    /\ RunReturned
    /\ run = 1
    /\ Len(dir) = 1
    /\ Len(dir[1].lines) = 2
    /\ \E i \in TraceIdx : trace[i].ev = "readerr"
    /\ trace[Len(trace)].ev = "upsert"
    /\ trace[Len(trace)].ok
    /\ Len(trace[Len(trace)].rows) = 1
    /\ Cardinality(observations) = 1
    /\ Len(result.Errors) = 1
    /\ result.Errors[1].msg = "error reading file"
    /\ result.TotalRecords = 0
    /\ result.SuccessfulRecords = 0

\* ---- several lines of one day -------------------------------------------------
RowsOfKey(o) == {r \in observations : KeyOf(r) = KeyOf(o)}

\* file f holds two valid lines of the same day with different values
HasRepeatedDay(f) ==
    LET obs == GoodObsFrom(f, 1, now)
    IN  \E k, m \in 1..Len(obs) :
           k < m /\ KeyOf(obs[k]) = KeyOf(obs[m]) /\ ~SameValues(obs[k], obs[m])

AbsentIffNoValue(st) ==
    /\ st.AvgMaxTemperatureCelsius = NULL <=> st.ValidMaxTempCount = 0
    /\ st.AvgMinTemperatureCelsius = NULL <=> st.ValidMinTempCount = 0
    /\ st.TotalPrecipitationCm = NULL <=> st.ValidPrecipitationCount = 0

\* C28: in the statistics CalculateYearlyStatistics has just returned and in
\* every stored row, avgMaxTempC is absent iff validMaxCount = 0, avgMinTempC
\* iff validMinCount = 0 and totalPrecipCm iff validPrecipCount = 0; and after a
\* recomputation without a failure, a (station, year) whose observations all
\* lack a field has a stored row, with observationCount > 0 and that aggregate
\* absent, not 0.
C28_AbsentIffValidCountZero ==
    /\ stats # NoStats => AbsentIffNoValue(stats)
    /\ \A r \in statistics : AbsentIffNoValue(r) /\ r.ObservationCount > 0
    /\ (pc = "statsdone" /\ statLog.errors = 0) =>
          \A s \in stations : \A y \in FirstYear..LastYear :
             (/\ ObservationsIn(s.StationID, y) > 0
              /\ ValidCount(observations, s.StationID, y, "PrecipitationCm") = 0) =>
                \E r \in statistics :
                   /\ r.StationID = s.StationID /\ r.Year = y
                   /\ r.ObservationCount = ObservationsIn(s.StationID, y)
                   /\ r.TotalPrecipitationCm = NULL
                   /\ r.TotalPrecipitationCm # Frac(0, 1)

\* a station whose only observation of 2013 lacks the precipitation, and one
\* whose only observation lacks the maximum: both rows are stored, count 1
C28_Witness ==
    /\ pc = "statsdone"
    /\ statLog.errors = 0
    /\ \E r \in statistics :
          /\ r.ObservationCount = 1
          /\ r.ValidPrecipitationCount = 0
          /\ r.TotalPrecipitationCm = NULL
          /\ r.AvgMaxTemperatureCelsius # NULL
    /\ \E r \in statistics :
          /\ r.ObservationCount = 1
          /\ r.ValidMaxTempCount = 0
          /\ r.AvgMaxTemperatureCelsius = NULL
          /\ r.TotalPrecipitationCm # NULL

\* ------------------------------------------------------------------------
\* The recomputation when the database fails from some pair on
\* ------------------------------------------------------------------------
\* an iteration during an outage: once a pair has failed, every later one fails
CalculatePairOutage(outcome) ==
    /\ outcome = "ok" => statLog.errors = 0
    /\ CalculatePairWith(outcome, TRUE)

NextOutage ==
    \/ IngestDirectory(1, 1)
    \/ BeginFile("ok")
    \/ ScanLine
    \/ ScanStop(FALSE)
    \/ FlushBatch(NoFailure)
    \/ FinishFile(NoFailure)
    \/ Return
    \/ MainReport
    \/ \E listOK \in BOOLEAN : CalculateAllStatistics(listOK)
    \/ \E outcome \in {"ok", "calc", "save"} : CalculatePairOutage(outcome)
    \/ StatisticsReturn

SpecOutage == InitStats /\ [][NextOutage]_vars

\* number of iterations of the loop over the years made so far
PairsVisited ==
    IF stationIdx = 0 THEN 0
    ELSE (stationIdx - 1) * (LastYear - FirstYear + 1) + (year - FirstYear)

\* C29: CalculateAllStatistics ends in an error only at a failing listing,
\* with "failed to list stations", having computed and written nothing; once
\* the listing has succeeded no failure of a pair ends it: it goes through the
\* pairs and returns nil after all the pairs of the listed stations, even when
\* the computation or the save of each of them failed.
C29_ErrorOnlyFromListing ==
    /\ [](/\ pc = "statsfailed" =>
                /\ err = "failed to list stations"
                /\ listed = <<>> /\ stats = NoStats /\ statLog = EmptyStatLog
                /\ statistics = snap.statistics
          /\ pc = "statsdone" =>
                /\ err = ""
                /\ Visited = stations
                /\ PairsVisited = Len(listed) * (LastYear - FirstYear + 1)
                /\ statLog.errors = Cardinality(statLog.failed)
                /\ statLog.errors <= PairsVisited)
    /\ [][/\ pc = "stats" => pc' \in {"stats", "statsdone"}
          /\ (pc = "stats" /\ pc' = "stats") => PairsVisited' = PairsVisited + 1
          /\ pc' = "statsfailed" => pc \in {"reported", "statsfailed"}
          /\ (pc = "reported" /\ pc' = "statsfailed") =>
                statistics' = statistics /\ statSeq' = statSeq]_vars

\* the computation or the save of each of the 60 pairs of two stations failed,
\* those with observations among them: nothing is stored and the call has
\* returned nil
C29_Witness ==
    /\ pc = "statsdone"
    /\ err = ""
    /\ Len(listed) = 2
    /\ Cardinality(observations) = 2
    /\ statLog.errors = 60
    /\ \A s \in stations : \A y \in FirstYear..LastYear : <<s.StationID, y>> \in statLog.failed
    /\ \E s \in stations : ObservationsIn(s.StationID, 2013) = 1
    /\ statLog.totalStats = 0
    /\ statistics = {}

\* ---- batch sizes below 1 ------------------------------------------------------
\* C30: for every batch size, 0 and the negative ones included, ingestFile does
\* not crash; once it has returned a result for a file, every observation of
\* the file that normalizes is stored; and with a batch size of 0 or less every
\* batch upsert carries exactly one observation.
C30_AnyBatchSizeCompletes ==
    /\ pc # "panic"
    /\ \A f \in 1..Len(dir) :
          FileIngested(f) =>
             LET obs == GoodObsFrom(f, 1, now)
             IN  \A k \in 1..Len(obs) : RowsOfKey(obs[k]) # {}
    /\ batchSize <= 0 =>
          \A i \in TraceIdx : trace[i].ev = "upsert" => Len(trace[i].rows) = 1

====
